---- MODULE Spec2Model ----
(***************************************************************************)
(* mcp-shell: the command validator (security.go), the command executor    *)
(* (executor.go) and the tool handler (handler.go).                        *)
(*                                                                         *)
(* A Go string is modelled as a sequence of one-character strings, so that *)
(* trimming, tokenising, substring search and path arithmetic are computed *)
(* character by character as the library routines compute them.            *)
(***************************************************************************)
EXTENDS Integers, Sequences, FiniteSets, TLC

VARIABLES
    config,      \* SecurityConfig shared by validator and executor
    env,         \* the process environment: cwd, PATH, executable files
    pc,          \* position of the handle call / of the function under test
    command,     \* the command string of the request
    decision,    \* the error value validateCommand returned
    probeExe,    \* matchesExecutable under test: the executable argument
    probePat,    \* matchesExecutable under test: the pattern argument
    probeRes,    \* matchesExecutable under test: the value returned
    parseRes,    \* parseCommand under test: the values returned
    request,     \* the tool request being handled
    child,       \* the child process of the call being handled
    result,      \* the CallToolResult the handle call returned
    allowed,     \* history: the commands validateCommand allowed in this call
    ctx,         \* the timeout scope cmdCtx of the execute call
    handleErr,   \* the Go error the handle call returned
    calls,       \* concurrent handle calls: the position and decision of each
    seen         \* history: every pair of command and decision validateCommand gave

probeVars == <<probeExe, probePat, probeRes, parseRes>>
handlerVars == <<request, child, result, allowed, ctx, handleErr>>
callVars == <<calls, seen>>
vars == <<config, env, pc, command, decision, probeExe, probePat, probeRes, parseRes,
          request, child, result, allowed, ctx, handleErr, calls, seen>>

(***************************************************************************)
(* Bounds                                                                  *)
(***************************************************************************)
MaxCmdLen == 3

(***************************************************************************)
(* package strings                                                         *)
(***************************************************************************)
\* unicode.IsSpace, ASCII range
Whitespace == {" ", "\t", "\n", "\r", "\f"}

RECURSIVE TrimLeftSpace(_)
TrimLeftSpace(s) ==
    IF s # <<>> /\ Head(s) \in Whitespace THEN TrimLeftSpace(Tail(s)) ELSE s

RECURSIVE TrimRightSpace(_)
TrimRightSpace(s) ==
    IF s # <<>> /\ s[Len(s)] \in Whitespace
    THEN TrimRightSpace(SubSeq(s, 1, Len(s) - 1))
    ELSE s

\* strings.TrimSpace
TrimSpace(s) == TrimRightSpace(TrimLeftSpace(s))

RECURSIVE FieldsFrom(_, _, _)
FieldsFrom(s, i, cur) ==
    IF i > Len(s)
    THEN IF cur = <<>> THEN <<>> ELSE <<cur>>
    ELSE IF s[i] \in Whitespace
         THEN IF cur = <<>>
              THEN FieldsFrom(s, i + 1, <<>>)
              ELSE <<cur>> \o FieldsFrom(s, i + 1, <<>>)
         ELSE FieldsFrom(s, i + 1, Append(cur, s[i]))

\* strings.Fields: the maximal runs of non-space characters, in order
Fields(s) == FieldsFrom(s, 1, <<>>)

\* strings.HasPrefix
HasPrefix(s, prefix) ==
    Len(prefix) <= Len(s) /\ SubSeq(s, 1, Len(prefix)) = prefix

\* strings.Contains
Contains(s, substr) ==
    \E i \in 1..(Len(s) - Len(substr) + 1) :
        \A k \in 1..Len(substr) : s[i + k - 1] = substr[k]

\* strings.ContainsRune
ContainsRune(s, r) == \E i \in 1..Len(s) : s[i] = r

RECURSIVE TrimRight(_, _)
\* strings.TrimRight: every trailing character of the cutset is removed
TrimRight(s, cutset) ==
    IF s # <<>> /\ s[Len(s)] \in cutset
    THEN TrimRight(SubSeq(s, 1, Len(s) - 1), cutset)
    ELSE s

RECURSIVE JoinWith(_, _)
\* strings.Join
JoinWith(elems, sep) ==
    IF elems = <<>> THEN <<>>
    ELSE IF Len(elems) = 1 THEN elems[1]
    ELSE elems[1] \o sep \o JoinWith(Tail(elems), sep)

(***************************************************************************)
(* package path/filepath (Unix)                                            *)
(***************************************************************************)
Slash == <<"/">>
Dot == <<".">>
DotDot == <<".", ".">>

RECURSIVE SplitFrom(_, _, _)
SplitFrom(s, i, cur) ==
    IF i > Len(s) THEN <<cur>>
    ELSE IF s[i] = "/" THEN <<cur>> \o SplitFrom(s, i + 1, <<>>)
    ELSE SplitFrom(s, i + 1, Append(cur, s[i]))

\* the elements of a path between its separators (empty ones included)
SplitPath(s) == SplitFrom(s, 1, <<>>)

\* filepath.IsAbs
IsAbs(path) == path # <<>> /\ path[1] = "/"

RECURSIVE CleanElems(_, _, _)
\* the lexical processing of filepath.Clean: drop empty and "." elements,
\* let ".." cancel the element before it, keep a leading ".." only when
\* the path is not rooted
CleanElems(elems, out, rooted) ==
    IF elems = <<>> THEN out
    ELSE LET e == Head(elems) IN
         IF e = <<>> \/ e = Dot
         THEN CleanElems(Tail(elems), out, rooted)
         ELSE IF e = DotDot
              THEN IF out # <<>> /\ out[Len(out)] # DotDot
                   THEN CleanElems(Tail(elems), SubSeq(out, 1, Len(out) - 1), rooted)
                   ELSE IF rooted
                        THEN CleanElems(Tail(elems), out, rooted)
                        ELSE CleanElems(Tail(elems), Append(out, e), rooted)
              ELSE CleanElems(Tail(elems), Append(out, e), rooted)

\* filepath.Clean
Clean(path) ==
    IF path = <<>> THEN Dot
    ELSE LET rooted == IsAbs(path)
             body   == JoinWith(CleanElems(SplitPath(path), <<>>, rooted), Slash)
         IN  IF rooted THEN Slash \o body
             ELSE IF body = <<>> THEN Dot ELSE body

\* filepath.Join of two elements
Join(dir, file) ==
    IF dir = <<>> /\ file = <<>> THEN <<>>
    ELSE IF dir = <<>> THEN Clean(file)
    ELSE IF file = <<>> THEN Clean(dir)
    ELSE Clean(dir \o Slash \o file)

RECURSIVE StripTrailingSlashes(_)
StripTrailingSlashes(s) ==
    IF s # <<>> /\ s[Len(s)] = "/"
    THEN StripTrailingSlashes(SubSeq(s, 1, Len(s) - 1))
    ELSE s

\* filepath.Base
Base(path) ==
    IF path = <<>> THEN Dot
    ELSE LET p == StripTrailingSlashes(path) IN
         IF p = <<>> THEN Slash
         ELSE LET elems == SplitPath(p) IN elems[Len(elems)]

\* filepath.Abs: [ok, path]; fails when the working directory cannot be
\* determined (env.cwd = <<>>)
Abs(e, path) ==
    IF IsAbs(path) THEN [ok |-> TRUE, path |-> Clean(path)]
    ELSE IF e.cwd = <<>> THEN [ok |-> FALSE, path |-> <<>>]
    ELSE [ok |-> TRUE, path |-> Join(e.cwd, path)]

(***************************************************************************)
(* The file system and package os/exec, as far as LookPath reads them.     *)
(* env.files is the set of executable regular files (absolute, clean       *)
(* paths); the directories are the ancestors of the files and of env.cwd.  *)
(***************************************************************************)
PathElems(path) == CleanElems(SplitPath(path), <<>>, TRUE)

FileElems(e) == {PathElems(f) : f \in e.files}

Prefixes(elems) == {SubSeq(elems, 1, n) : n \in 0..Len(elems)}

DirElems(e) ==
    UNION {Prefixes(f) \ {f} : f \in FileElems(e)}
        \cup (IF e.cwd = <<>> THEN {<<>>} ELSE Prefixes(PathElems(e.cwd)))

NoEntry == [ok |-> FALSE, at |-> <<>>]

RECURSIVE Walk(_, _, _)
\* the kernel's path walk from directory cur: "." and empty elements stay,
\* ".." goes to the parent, a name must exist, a file has no children
Walk(e, elems, cur) ==
    IF elems = <<>> THEN [ok |-> TRUE, at |-> cur]
    ELSE IF cur \in FileElems(e) THEN NoEntry
    ELSE LET x == Head(elems) IN
         IF x = <<>> \/ x = Dot THEN Walk(e, Tail(elems), cur)
         ELSE IF x = DotDot
              THEN Walk(e, Tail(elems),
                        IF cur = <<>> THEN cur ELSE SubSeq(cur, 1, Len(cur) - 1))
              ELSE LET nxt == Append(cur, x) IN
                   IF nxt \in FileElems(e) \cup DirElems(e)
                   THEN Walk(e, Tail(elems), nxt)
                   ELSE NoEntry

\* os.Stat: the file a path names, relative paths taken from env.cwd
Stat(e, path) ==
    IF path = <<>> THEN NoEntry
    ELSE IF IsAbs(path) THEN Walk(e, SplitPath(path), <<>>)
    ELSE IF e.cwd = <<>> THEN NoEntry
    ELSE Walk(e, SplitPath(path), PathElems(e.cwd))

\* exec.findExecutable: the path names an executable file, not a directory
findExecutable(e, file) ==
    LET st == Stat(e, file) IN st.ok /\ st.at \in FileElems(e)

RECURSIVE LookPathDirs(_, _, _)
\* the loop of exec.LookPath over the PATH list: the first directory that
\* holds the file decides; a hit in a relative directory is exec.ErrDot
LookPathDirs(e, dirs, file) ==
    IF dirs = <<>> THEN [ok |-> FALSE, path |-> <<>>]
    ELSE LET dir  == IF Head(dirs) = <<>> THEN Dot ELSE Head(dirs)
             path == Join(dir, file)
         IN  IF findExecutable(e, path)
             THEN [ok |-> IsAbs(path), path |-> path]
             ELSE LookPathDirs(e, Tail(dirs), file)

\* exec.LookPath: a name with a slash is tried as it stands (relative to the
\* working directory), any other name is searched in PATH
LookPath(e, file) ==
    IF Contains(file, Slash)
    THEN IF findExecutable(e, file)
         THEN [ok |-> TRUE, path |-> file]
         ELSE [ok |-> FALSE, path |-> <<>>]
    ELSE LookPathDirs(e, e.path, file)

(***************************************************************************)
(* package regexp, for the patterns the model configures: literals, ".",   *)
(* a postfix "*", "^" and "$"; "(" and "[" only occur unclosed.            *)
(***************************************************************************)
RegexAssertions == {"^", "$"}

\* regexp.Compile succeeds: no unclosed group or class, every "*" has an
\* operand and no repetition is repeated
compileOK(p) ==
    /\ ~ContainsRune(p, "(")
    /\ ~ContainsRune(p, "[")
    /\ \A i \in 1..Len(p) : p[i] = "*" => (i > 1 /\ p[i - 1] # "*")

RECURSIVE regexItems(_, _)
\* the pattern as a sequence of items [a, star]
regexItems(p, i) ==
    IF i > Len(p) THEN <<>>
    ELSE IF i < Len(p) /\ p[i + 1] = "*"
         THEN <<[a |-> p[i], star |-> TRUE]>> \o regexItems(p, i + 2)
         ELSE <<[a |-> p[i], star |-> FALSE]>> \o regexItems(p, i + 1)

\* one character against an atom; "." does not match a newline
atomMatches(a, ch) == IF a = "." THEN ch # "\n" ELSE a = ch

RECURSIVE matchHere(_, _, _, _)
\* items k.. match a prefix of s[i..]
matchHere(items, k, s, i) ==
    IF k > Len(items) THEN TRUE
    ELSE LET it == items[k] IN
         IF it.star
         THEN \/ matchHere(items, k + 1, s, i)
              \/ /\ it.a \notin RegexAssertions
                 /\ i <= Len(s)
                 /\ atomMatches(it.a, s[i])
                 /\ matchHere(items, k, s, i + 1)
         ELSE IF it.a = "^" THEN i = 1 /\ matchHere(items, k + 1, s, i)
         ELSE IF it.a = "$" THEN i = Len(s) + 1 /\ matchHere(items, k + 1, s, i)
         ELSE /\ i <= Len(s)
              /\ atomMatches(it.a, s[i])
              /\ matchHere(items, k + 1, s, i + 1)

\* regexp.MatchString: [err, matched]; unanchored search
MatchString(p, s) ==
    IF ~compileOK(p) THEN [err |-> TRUE, matched |-> FALSE]
    ELSE [err     |-> FALSE,
          matched |-> \E i \in 1..(Len(s) + 1) : matchHere(regexItems(p, 1), 1, s, i)]

(***************************************************************************)
(* security.go                                                             *)
(***************************************************************************)
\* a Go error value: nil, or fmt.Errorf(msg, arg)
Nil == [err |-> FALSE, msg |-> "", arg |-> <<>>]
Errorf(msg, arg) == [err |-> TRUE, msg |-> msg, arg |-> arg]

\* the character U+0060 (backquote), which a TLA+ string literal cannot hold
Backquote == "U+0060"

metachars == {"|", "&", ";", "<", ">", "(", ")", "{", "}", "[", "]", "$", Backquote, "\\"}

\* mutant: the parentheses are missing from the metacharacter list
containsShellMetacharacters_NoParens(s) ==
    \E i \in 1..Len(s) : s[i] \in metachars \ {"(", ")"}

\* mutant: the semicolon is missing from the metacharacter list
containsShellMetacharacters_NoSemicolon(s) ==
    \E i \in 1..Len(s) : s[i] \in metachars \ {";"}

containsShellMetacharacters(s) == \E i \in 1..Len(s) : s[i] \in metachars

dangerous ==
    << <<"$", "(">>, <<Backquote>>, <<"$", "{">>, <<"&", "&">>, <<"|", "|">>, <<";">>,
       <<"|">>, <<">">>, <<"<">>, <<">", ">">>, <<"<", "<">>, <<"&">> >>

containsDangerousShellConstructs(s) ==
    \E k \in 1..Len(dangerous) : Contains(s, dangerous[k])

\* mutant: a basename match is accepted without looking the executable up
matchesExecutable_NoLookPath(e, exe, pat) ==
    IF exe = pat THEN TRUE
    ELSE IF IsAbs(pat)
         THEN LET absExec == Abs(e, exe) IN absExec.ok /\ absExec.path = pat
         ELSE ~IsAbs(exe) /\ Base(exe) = pat

\* mutant: the basename match is tried for absolute executables as well
matchesExecutable_AnyBase(e, exe, pat) ==
    IF exe = pat THEN TRUE
    ELSE IF IsAbs(pat)
         THEN LET absExec == Abs(e, exe) IN absExec.ok /\ absExec.path = pat
         ELSE IF Base(exe) = pat
              THEN LookPath(e, exe).ok
              ELSE FALSE

matchesExecutable(e, exe, pat) ==
    IF exe = pat THEN TRUE
    ELSE IF IsAbs(pat)
         THEN LET absExec == Abs(e, exe) IN absExec.ok /\ absExec.path = pat
         ELSE IF ~IsAbs(exe) /\ Base(exe) = pat
              THEN LookPath(e, exe).ok
              ELSE FALSE

\* mutant: the metacharacter check is missing, the dangerous-construct check
\* is the first to look at the command
validateExecutableCommand_NoMetaCheck(cfg, e, c) ==
    LET cmd == TrimSpace(c) IN
    IF cmd = <<>> THEN Errorf("empty command", <<>>)
    ELSE IF containsDangerousShellConstructs(cmd)
    THEN Errorf("command contains dangerous shell constructs (not allowed in secure mode): %s", cmd)
    ELSE LET parts == Fields(cmd) IN
         IF Len(parts) = 0 THEN Errorf("no command found", <<>>)
         ELSE IF \E k \in 1..Len(cfg.AllowedExecutables) :
                     matchesExecutable(e, parts[1], cfg.AllowedExecutables[k])
              THEN Nil
              ELSE Errorf("executable '%s' not in allowed list", parts[1])

validateExecutableCommand(cfg, e, c) ==
    LET cmd == TrimSpace(c) IN
    IF cmd = <<>> THEN Errorf("empty command", <<>>)
    ELSE IF containsShellMetacharacters(cmd)
    THEN Errorf("command contains shell metacharacters (not allowed in secure mode): %s", cmd)
    ELSE IF containsDangerousShellConstructs(cmd)
    THEN Errorf("command contains dangerous shell constructs (not allowed in secure mode): %s", cmd)
    ELSE LET parts == Fields(cmd) IN
         IF Len(parts) = 0 THEN Errorf("no command found", <<>>)
         ELSE IF \E k \in 1..Len(cfg.AllowedExecutables) :
                     matchesExecutable(e, parts[1], cfg.AllowedExecutables[k])
              THEN Nil
              ELSE Errorf("executable '%s' not in allowed list", parts[1])

RECURSIVE blockedPatternLoop_DenyOnError(_, _)
\* mutant: a pattern that does not compile denies the command
blockedPatternLoop_DenyOnError(patterns, c) ==
    IF patterns = <<>> THEN Nil
    ELSE LET m == MatchString(Head(patterns), c) IN
         IF m.err \/ m.matched
         THEN Errorf("command matches blocked pattern: %s", Head(patterns))
         ELSE blockedPatternLoop_DenyOnError(Tail(patterns), c)

RECURSIVE blockedPatternLoop(_, _)
\* security.go:155-163
blockedPatternLoop(patterns, c) ==
    IF patterns = <<>> THEN Nil
    ELSE LET m == MatchString(Head(patterns), c) IN
         IF ~m.err /\ m.matched
         THEN Errorf("command matches blocked pattern: %s", Head(patterns))
         ELSE blockedPatternLoop(Tail(patterns), c)

RECURSIVE blockedCommandLoop(_, _)
\* security.go:165-173
blockedCommandLoop(blocked, c) ==
    IF blocked = <<>> THEN Nil
    ELSE IF Contains(c, Head(blocked))
         THEN Errorf("command contains blocked keyword: %s", Head(blocked))
         ELSE blockedCommandLoop(Tail(blocked), c)

RECURSIVE allowedCommandLoop(_, _)
\* security.go:177-182: some entry is a prefix of the trimmed command
allowedCommandLoop(allowedCmds, c) ==
    IF allowedCmds = <<>> THEN FALSE
    ELSE IF HasPrefix(TrimSpace(c), Head(allowedCmds)) THEN TRUE
         ELSE allowedCommandLoop(Tail(allowedCmds), c)

\* mutant: the keywords are checked before the patterns
validateLegacyCommand_KeywordFirst(cfg, c) ==
    LET byPattern == blockedPatternLoop(cfg.BlockedPatterns, c)
        byKeyword == blockedCommandLoop(cfg.BlockedCommands, c)
    IN  IF byKeyword.err THEN byKeyword
        ELSE IF byPattern.err THEN byPattern
        ELSE IF Len(cfg.AllowedCommands) > 0 /\ ~allowedCommandLoop(cfg.AllowedCommands, c)
             THEN Errorf("command not in allowed list", <<>>)
             ELSE Nil

\* mutant: legacy validation rejects shell metacharacters like secure mode
validateLegacyCommand_RejectMeta(cfg, c) ==
    LET byPattern == blockedPatternLoop(cfg.BlockedPatterns, c)
        byKeyword == blockedCommandLoop(cfg.BlockedCommands, c)
    IN  IF containsShellMetacharacters(c)
        THEN Errorf("command contains shell metacharacters (not allowed in secure mode): %s", c)
        ELSE IF byPattern.err THEN byPattern
        ELSE IF byKeyword.err THEN byKeyword
        ELSE IF Len(cfg.AllowedCommands) > 0 /\ ~allowedCommandLoop(cfg.AllowedCommands, c)
             THEN Errorf("command not in allowed list", <<>>)
             ELSE Nil

validateLegacyCommand(cfg, c) ==
    LET byPattern == blockedPatternLoop(cfg.BlockedPatterns, c)
        byKeyword == blockedCommandLoop(cfg.BlockedCommands, c)
    IN  IF byPattern.err THEN byPattern
        ELSE IF byKeyword.err THEN byKeyword
        ELSE IF Len(cfg.AllowedCommands) > 0 /\ ~allowedCommandLoop(cfg.AllowedCommands, c)
             THEN Errorf("command not in allowed list", <<>>)
             ELSE Nil

\* mutant: the master switch is not consulted
validateCommand_IgnoreEnabled(cfg, e, c) ==
    IF ~cfg.UseShellExecution /\ Len(cfg.AllowedExecutables) > 0
    THEN validateExecutableCommand(cfg, e, c)
    ELSE IF cfg.UseShellExecution THEN validateLegacyCommand(cfg, c)
    ELSE Errorf("no allowed executables configured - all commands blocked for security", <<>>)

\* mutant: an empty allowlist falls through to the allowlist validation
validateCommand_NoFailClosed(cfg, e, c) ==
    IF ~cfg.Enabled THEN Nil
    ELSE IF cfg.UseShellExecution THEN validateLegacyCommand(cfg, c)
    ELSE validateExecutableCommand(cfg, e, c)

\* mutant: a configured allowlist selects the allowlist validation whatever
\* the mode flag says
validateCommand_AllowlistFirst(cfg, e, c) ==
    IF ~cfg.Enabled THEN Nil
    ELSE IF Len(cfg.AllowedExecutables) > 0
         THEN validateExecutableCommand(cfg, e, c)
    ELSE IF cfg.UseShellExecution THEN validateLegacyCommand(cfg, c)
    ELSE Errorf("no allowed executables configured - all commands blocked for security", <<>>)

validateCommand(cfg, e, c) ==
    IF ~cfg.Enabled THEN Nil
    ELSE IF ~cfg.UseShellExecution /\ Len(cfg.AllowedExecutables) > 0
         THEN validateExecutableCommand(cfg, e, c)
    ELSE IF cfg.UseShellExecution THEN validateLegacyCommand(cfg, c)
    ELSE IF Len(cfg.AllowedExecutables) = 0
         THEN Errorf("no allowed executables configured - all commands blocked for security", <<>>)
         ELSE validateExecutableCommand(cfg, e, c)

(***************************************************************************)
(* Inputs                                                                  *)
(***************************************************************************)
StringsUpTo(A, n) == UNION {[1..k -> A] : k \in 0..n}

\* names used below: the program l lives in /b, r is another program
sL == <<"l">>
sR == <<"r">>
sRootL == <<"/", "l">>
sBinL == <<"/", "b", "/", "l">>
sBinR == <<"/", "b", "/", "r">>
sWorkL == <<"/", "w", "/", "l">>
sBin == <<"/", "b">>
sWork == <<"/", "w">>
sBash == <<"b", "a", "s", "h">>
sBinBash == <<"/", "b", "/", "b", "a", "s", "h">>

\* An environment: the engine's working directory, its PATH, the executable
\* files, the directories os.MkdirAll succeeds for, the users user.Lookup
\* knows, and whether the engine may start a child under another identity.
\* l and r are found in PATH; the working directory is the root
EnvPathHit == [cwd |-> Slash, path |-> <<sBin>>, files |-> {sBinL, sBinR, sBinBash},
                   dirs |-> {}, users |-> {}, privileged |-> FALSE]
\* l exists in the working directory only
EnvCwdOnly == [cwd |-> sWork, path |-> <<sBin>>, files |-> {sWorkL, sBinBash},
                   dirs |-> {}, users |-> {}, privileged |-> FALSE]
\* the working directory is the PATH directory
EnvCwdInPath == [cwd |-> sBin, path |-> <<sBin>>, files |-> {sBinL, sBinBash},
                     dirs |-> {}, users |-> {}, privileged |-> FALSE]
\* another l in the root directory, which is the working directory
EnvRoot == [cwd |-> Slash, path |-> <<sBin>>, files |-> {sRootL, sBinL, sBinBash},
                dirs |-> {}, users |-> {}, privileged |-> FALSE]
\* PATH lists the working directory as "." before /b
EnvDotPath == [cwd |-> sWork, path |-> <<Dot, sBin>>, files |-> {sWorkL, sBinL, sBinBash},
                   dirs |-> {}, users |-> {}, privileged |-> FALSE]
\* the working directory cannot be determined
EnvNoCwd == [cwd |-> <<>>, path |-> <<sBin>>, files |-> {sBinL, sBinBash},
                 dirs |-> {}, users |-> {}, privileged |-> FALSE]

Envs == {EnvPathHit, EnvCwdOnly, EnvCwdInPath, EnvRoot, EnvDotPath, EnvNoCwd}

CommandAlphabet == {"l", "r", " ", "/", ".", ";"}

LongCommands ==
    { sBinL, <<"b", "/", "l">>, <<".", "/", "l", " ", "r">>,
      <<" ", "l", " ", " ", "r", "\t">>,
      <<"l", " ", "$", "(", "r", ")">>,
      <<"l", " ", "$", "(", "l", ")">>,
      <<"l", " ", Backquote, "r", Backquote>>,
      <<"l", " ", "$", "{", "r", "}">>,
      <<"l", " ", "|", " ", "r">>,
      <<"/", "b", "/", ".", ".", "/", "b", "/", "l">> }

\* every string over the alphabet up to the bound, every metacharacter and
\* every dangerous construct alone and as an argument of l, and some longer
\* commands
Commands ==
    StringsUpTo(CommandAlphabet, MaxCmdLen)
        \cup {<<m>> : m \in metachars}
        \cup {<<"l", " ", m>> : m \in metachars}
        \cup {dangerous[k] : k \in 1..Len(dangerous)}
        \cup {<<"l", " ">> \o dangerous[k] : k \in 1..Len(dangerous)}
        \cup LongCommands

AllowedExecutableLists == {<<>>, <<sL>>, <<sRootL>>, <<sBinL>>, <<sR, sL>>}
AllowedCommandLists == {<<>>, <<sL>>, <<sR, <<"l", " ">> >>}
BlockedCommandLists == {<<>>, <<sR>>, <<sRootL, <<>> >>}
BlockedPatternLists ==
    { <<>>, << <<"r", ".">> >>, << <<"(">>, <<"^", "l">> >>,
      << <<"*", "r">>, <<"l", "*", "r", "$">> >> }

SecurityConfig(en, sh, ae, ac, bc, bp) ==
    [Enabled |-> en, UseShellExecution |-> sh, AllowedExecutables |-> ae,
     AllowedCommands |-> ac, BlockedCommands |-> bc, BlockedPatterns |-> bp,
     MaxOutputSize |-> 0, WorkingDirectory |-> <<>>, RunAsUser |-> <<>>]

\* secure mode: every allowlist, with and without the legacy lists set
SecureConfigs ==
    {SecurityConfig(TRUE, FALSE, ae, <<>>, <<>>, <<>>) : ae \in AllowedExecutableLists}
        \cup {SecurityConfig(TRUE, FALSE, ae, <<sL>>, <<sR>>, << <<"r", ".">> >>) :
                  ae \in AllowedExecutableLists}

\* legacy mode: every combination of the legacy lists
LegacyConfigs ==
    {SecurityConfig(TRUE, TRUE, ae, ac, bc, bp) :
        ae \in {<<>>, <<sL>>}, ac \in AllowedCommandLists,
        bc \in BlockedCommandLists, bp \in BlockedPatternLists}

DisabledConfigs ==
    {SecurityConfig(FALSE, sh, ae, ac, bc, bp) :
        sh \in BOOLEAN, ae \in {<<>>, <<sL>>}, ac \in {<<>>, <<sL>>},
        bc \in {<<>>, <<sR>>}, bp \in {<<>>, << <<"r", ".">> >>}}

(***************************************************************************)
(* validateCommand as a function: the configuration and the environment    *)
(* are drawn initially, one call validates one command.                    *)
(***************************************************************************)
NoDecision == [err |-> FALSE, msg |-> "no decision", arg |-> <<>>]
NoParse == [err |-> NoDecision, executable |-> <<>>, args |-> <<>>]
NoRequest == [hasCommand |-> FALSE, command |-> <<>>, base64 |-> FALSE]
\* cmd.SysProcAttr is nil: the child has the identity of the engine
NoCredential == [set |-> FALSE, Uid |-> 0, Gid |-> 0]
\* result.SecurityInfo is nil
NoSecurityInfo ==
    [set |-> FALSE, SecurityEnabled |-> FALSE, WorkingDir |-> <<>>,
     RunAsUser |-> <<>>, TimeoutApplied |-> FALSE]
NoChild ==
    [state |-> "none", path |-> <<>>, argv |-> <<>>, command |-> <<>>,
     stdout |-> <<>>, stderr |-> <<>>, code |-> 0,
     signalled |-> FALSE, descendants |-> FALSE,
     dir |-> <<>>, credential |-> NoCredential]
NoResult == [returned |-> FALSE, IsError |-> FALSE, text |-> "", err |-> Nil,
             status |-> "", exitCode |-> 0, stdout |-> <<>>, stderr |-> <<>>,
             security_info |-> NoSecurityInfo]
\* bound: the calls in flight at the same time
MaxCalls == 2
Callers == 1..MaxCalls
IdleCall == [pc |-> "idle", command |-> <<>>, decision |-> NoDecision]
NoCalls == [i \in Callers |-> IdleCall]

HandlerIdle ==
    /\ calls = NoCalls
    /\ seen = {}
    /\ request = NoRequest
    /\ child = NoChild
    /\ result = NoResult
    /\ allowed = {}
    /\ ctx = "none"
    /\ handleErr = Nil

InitValidate ==
    /\ \/ config \in SecureConfigs /\ env \in {EnvPathHit, EnvCwdOnly, EnvCwdInPath, EnvRoot}
       \/ config \in LegacyConfigs /\ env = EnvPathHit
       \/ config \in DisabledConfigs /\ env = EnvPathHit
    /\ pc = "start"
    /\ command = <<>>
    /\ decision = NoDecision
    /\ probeExe = <<>>
    /\ probePat = <<>>
    /\ probeRes = FALSE
    /\ parseRes = NoParse
    /\ HandlerIdle

ValidateCommandCall ==
    /\ pc = "start"
    /\ \E c \in Commands :
          /\ command' = c
          /\ decision' = validateCommand(config, env, c)
    /\ pc' = "returned"
    /\ UNCHANGED <<config, env, probeVars, callVars, handlerVars>>

NextValidate == ValidateCommandCall

SpecValidate == InitValidate /\ [][NextValidate]_vars

(***************************************************************************)
(* matchesExecutable as a function                                         *)
(***************************************************************************)
PathAlphabet == {"l", "r", "/", "."}

\* the validator passes tokens of strings.Fields: never empty
Candidates ==
    (StringsUpTo(PathAlphabet, MaxCmdLen) \ {<<>>})
        \cup {sBinL, sBinR, sWorkL, <<"b", "/", "l">>, <<".", ".", "/", "l">>,
              <<"/", "b", "/", "/", "l">>, <<"/", "w", "/", ".", ".", "/", "b", "/", "l">>}

AllowedEntries == {<<>>, sL, sR, sRootL, sBinL, <<".", "/", "l">>, <<"b", "/", "l">>}

InitMatch ==
    /\ config = SecurityConfig(FALSE, FALSE, <<>>, <<>>, <<>>, <<>>)
    /\ env \in Envs
    /\ pc = "start"
    /\ command = <<>>
    /\ decision = NoDecision
    /\ probeExe = <<>>
    /\ probePat = <<>>
    /\ probeRes = FALSE
    /\ parseRes = NoParse
    /\ HandlerIdle

MatchesExecutableCall ==
    /\ pc = "start"
    /\ \E exe \in Candidates, pat \in AllowedEntries :
          /\ probeExe' = exe
          /\ probePat' = pat
          /\ probeRes' = matchesExecutable(env, exe, pat)
    /\ parseRes' = parseRes
    /\ pc' = "returned"
    /\ UNCHANGED <<config, env, command, decision, handlerVars, callVars>>

NextMatch == MatchesExecutableCall

SpecMatch == InitMatch /\ [][NextMatch]_vars

(***************************************************************************)
(* executor.go                                                             *)
(***************************************************************************)
RECURSIVE dangerousArgLoop(_)
\* executor.go:125-129: the first argument holding a dangerous construct
dangerousArgLoop(args) ==
    IF args = <<>> THEN Nil
    ELSE IF containsDangerousShellConstructs(Head(args))
         THEN Errorf("argument contains dangerous shell constructs: %s", Head(args))
         ELSE dangerousArgLoop(Tail(args))

\* mutant: the executable is returned as its base name
parseCommand_BaseName(c) ==
    LET cmd   == TrimSpace(c)
        parts == Fields(cmd)
        fail(e) == [err |-> e, executable |-> <<>>, args |-> <<>>]
    IN  IF cmd = <<>> THEN fail(Errorf("empty command", <<>>))
        ELSE IF Len(parts) = 0 THEN fail(Errorf("no command found", <<>>))
        ELSE IF containsShellMetacharacters(parts[1])
        THEN fail(Errorf("executable contains shell metacharacters: %s", parts[1]))
        ELSE IF dangerousArgLoop(Tail(parts)).err
        THEN fail(dangerousArgLoop(Tail(parts)))
        ELSE [err |-> Nil, executable |-> Base(parts[1]), args |-> Tail(parts)]

\* mutant: the command is tested for emptiness before it is trimmed
parseCommand_EmptyUntrimmed(c) ==
    LET cmd   == TrimSpace(c)
        parts == Fields(cmd)
        fail(e) == [err |-> e, executable |-> <<>>, args |-> <<>>]
    IN  IF c = <<>> THEN fail(Errorf("empty command", <<>>))
        ELSE IF Len(parts) = 0 THEN fail(Errorf("no command found", <<>>))
        ELSE IF containsShellMetacharacters(parts[1])
        THEN fail(Errorf("executable contains shell metacharacters: %s", parts[1]))
        ELSE IF dangerousArgLoop(Tail(parts)).err
        THEN fail(dangerousArgLoop(Tail(parts)))
        ELSE [err |-> Nil, executable |-> parts[1], args |-> Tail(parts)]

\* [err, executable, args]
parseCommand(c) ==
    LET cmd   == TrimSpace(c)
        parts == Fields(cmd)
        fail(e) == [err |-> e, executable |-> <<>>, args |-> <<>>]
    IN  IF cmd = <<>> THEN fail(Errorf("empty command", <<>>))
        ELSE IF Len(parts) = 0 THEN fail(Errorf("no command found", <<>>))
        ELSE IF containsShellMetacharacters(parts[1])
        THEN fail(Errorf("executable contains shell metacharacters: %s", parts[1]))
        ELSE IF dangerousArgLoop(Tail(parts)).err
        THEN fail(dangerousArgLoop(Tail(parts)))
        ELSE [err |-> Nil, executable |-> parts[1], args |-> Tail(parts)]

\* exec.CommandContext: [Path, Args, Err]; a name without a separator is
\* looked up in PATH, and a failed lookup is kept in Err
CommandContext(e, name, args) ==
    IF Base(name) = name
    THEN LET lp == LookPath(e, name) IN
         [Path |-> IF lp.path # <<>> THEN lp.path ELSE name,
          Args |-> <<name>> \o args,
          Err  |-> ~lp.ok, Dir |-> <<>>, Credential |-> NoCredential]
    ELSE [Path |-> name, Args |-> <<name>> \o args, Err |-> FALSE,
          Dir |-> <<>>, Credential |-> NoCredential]

\* mutant: with security disabled the command is handed to the shell
buildCommand_ShellWhenDisabled(cfg, e, c) ==
    IF cfg.UseShellExecution \/ ~cfg.Enabled
    THEN [err |-> Nil, cmd |-> CommandContext(e, sBash, << <<"-", "c">>, c >>)]
    ELSE LET parsed == parseCommand(c) IN
         IF parsed.err.err
         THEN [err |-> Errorf("command parsing failed: %w", parsed.err),
               cmd |-> [Path |-> <<>>, Args |-> <<>>, Err |-> TRUE,
                        Dir |-> <<>>, Credential |-> NoCredential]]
         ELSE [err |-> Nil, cmd |-> CommandContext(e, parsed.executable, parsed.args)]

\* mutant: the error of parseCommand is returned as it is
buildCommand_BareParseError(cfg, e, c) ==
    IF cfg.UseShellExecution
    THEN [err |-> Nil, cmd |-> CommandContext(e, sBash, << <<"-", "c">>, c >>)]
    ELSE LET parsed == parseCommand(c) IN
         IF parsed.err.err
         THEN [err |-> parsed.err,
               cmd |-> [Path |-> <<>>, Args |-> <<>>, Err |-> TRUE,
                        Dir |-> <<>>, Credential |-> NoCredential]]
         ELSE [err |-> Nil, cmd |-> CommandContext(e, parsed.executable, parsed.args)]

\* executor.go:139-164: the command to run, or the parse error
buildCommand(cfg, e, c) ==
    IF cfg.UseShellExecution
    THEN [err |-> Nil, cmd |-> CommandContext(e, sBash, << <<"-", "c">>, c >>)]
    ELSE LET parsed == parseCommand(c) IN
         IF parsed.err.err
         THEN [err |-> Errorf("command parsing failed: %w", parsed.err),
               cmd |-> [Path |-> <<>>, Args |-> <<>>, Err |-> TRUE,
                        Dir |-> <<>>, Credential |-> NoCredential]]
         ELSE [err |-> Nil, cmd |-> CommandContext(e, parsed.executable, parsed.args)]

\* os.MkdirAll: the directory exists or can be created
MkdirAll(e, dir) == dir \in e.dirs

\* user.Lookup: [ok, Uid, Gid], the ids as the strings of the user database
Lookup(e, name) ==
    IF \E u \in e.users : u.name = name
    THEN LET u == CHOOSE u \in e.users : u.name = name IN
         [ok |-> TRUE, Uid |-> u.Uid, Gid |-> u.Gid]
    ELSE [ok |-> FALSE, Uid |-> <<>>, Gid |-> <<>>]

Digits == <<"0", "1", "2", "3", "4", "5", "6", "7", "8", "9">>

RECURSIVE digitsValue(_)
digitsValue(s) ==
    IF s = <<>> THEN 0
    ELSE digitsValue(SubSeq(s, 1, Len(s) - 1)) * 10
            + (CHOOSE d \in 1..10 : Digits[d] = s[Len(s)]) - 1

\* strconv.Atoi of an id: [ok, n]
Atoi(s) ==
    IF s # <<>> /\ \A i \in 1..Len(s) : \E d \in 1..10 : Digits[d] = s[i]
    THEN [ok |-> TRUE, n |-> digitsValue(s)]
    ELSE [ok |-> FALSE, n |-> 0]

\* mutant: cmd.Dir is set whether or not the directory could be made
configureCommand_DirAlways(cfg, e, cmd) ==
    LET u == Lookup(e, cfg.RunAsUser) IN
    [cmd EXCEPT
        !.Dir = IF cfg.WorkingDirectory # <<>> THEN cfg.WorkingDirectory ELSE @,
        !.Credential = IF cfg.RunAsUser # <<>> /\ u.ok /\ Atoi(u.Uid).ok /\ Atoi(u.Gid).ok
                       THEN [set |-> TRUE, Uid |-> Atoi(u.Uid).n, Gid |-> Atoi(u.Gid).n]
                       ELSE @]

\* executor.go:166-193: cmd.Dir and cmd.SysProcAttr.Credential are set when
\* the directory could be made and the user resolved to numeric ids; a
\* failure leaves the field as exec.CommandContext made it
configureCommand(cfg, e, cmd) ==
    LET u == Lookup(e, cfg.RunAsUser) IN
    [cmd EXCEPT
        !.Dir = IF cfg.WorkingDirectory # <<>> /\ MkdirAll(e, cfg.WorkingDirectory)
                THEN cfg.WorkingDirectory ELSE @,
        !.Credential = IF cfg.RunAsUser # <<>> /\ u.ok /\ Atoi(u.Uid).ok /\ Atoi(u.Gid).ok
                       THEN [set |-> TRUE, Uid |-> Atoi(u.Uid).n, Gid |-> Atoi(u.Gid).n]
                       ELSE @]

\* cmd.Start succeeds: the lookup did not fail, the engine may take the
\* identity asked for, and Path, relative to Dir when Dir is set, names an
\* executable
canStart(e, cmd) ==
    /\ ~cmd.Err
    /\ cmd.Credential.set => e.privileged
    /\ findExecutable(IF cmd.Dir # <<>> THEN [e EXCEPT !.cwd = cmd.Dir] ELSE e, cmd.Path)

(***************************************************************************)
(* package encoding/base64, over the bytes the model's children write      *)
(***************************************************************************)
OutputBytes == {"a", "\n"}

byteValue(ch) == IF ch = "\n" THEN 10 ELSE 97

\* base64.StdEncoding: the 64 characters, and "=" as padding
encodeStd ==
    <<"A", "B", "C", "D", "E", "F", "G", "H", "I", "J", "K", "L", "M", "N", "O", "P",
       "Q", "R", "S", "T", "U", "V", "W", "X", "Y", "Z", "a", "b", "c", "d", "e", "f",
       "g", "h", "i", "j", "k", "l", "m", "n", "o", "p", "q", "r", "s", "t", "u", "v",
       "w", "x", "y", "z", "0", "1", "2", "3", "4", "5", "6", "7", "8", "9", "+", "/" >>

\* one group of one to three bytes as four characters
encodeGroup(bs) ==
    LET n  == Len(bs)
        b1 == byteValue(bs[1])
        b2 == IF n >= 2 THEN byteValue(bs[2]) ELSE 0
        b3 == IF n >= 3 THEN byteValue(bs[3]) ELSE 0
        v  == b1 * 65536 + b2 * 256 + b3
        c1 == encodeStd[(v \div 262144) + 1]
        c2 == encodeStd[((v \div 4096) % 64) + 1]
        c3 == IF n >= 2 THEN encodeStd[((v \div 64) % 64) + 1] ELSE "="
        c4 == IF n >= 3 THEN encodeStd[(v % 64) + 1] ELSE "="
    IN  <<c1, c2, c3, c4>>

RECURSIVE EncodeToString(_)
\* base64.StdEncoding.EncodeToString
EncodeToString(bs) ==
    IF bs = <<>> THEN <<>>
    ELSE IF Len(bs) <= 3 THEN encodeGroup(bs)
    ELSE encodeGroup(SubSeq(bs, 1, 3)) \o EncodeToString(SubSeq(bs, 4, Len(bs)))

(***************************************************************************)
(* executor.go: what executeSecureCommand does once cmd.Run has returned   *)
(***************************************************************************)
\* the error value of cmd.Run: nil, an *exec.ExitError with the code of
\* ProcessState.ExitCode (-1 for a process ended by a signal), or another
\* error (a failed start, the error of the context)
NoRunError == [kind |-> "nil", code |-> 0]
ExitError(code) == [kind |-> "ExitError", code |-> code]
OtherError == [kind |-> "other", code |-> 0]

\* the error cmd.Wait has for the child ch
waitError(ch) ==
    IF ch.state = "killed" THEN ExitError(-1)
    ELSE IF ch.code # 0 THEN ExitError(ch.code)
    ELSE IF ch.signalled THEN OtherError
    ELSE NoRunError

\* mutant: output of exactly the limit counts as exceeding it
outputLimitError_AtLeast(cfg, stdoutBuf, stderrBuf) ==
    IF cfg.MaxOutputSize > 0 /\ Len(stdoutBuf) >= cfg.MaxOutputSize
    THEN Errorf("stdout exceeds maximum size limit", <<>>)
    ELSE IF cfg.MaxOutputSize > 0 /\ Len(stderrBuf) >= cfg.MaxOutputSize
    THEN Errorf("stderr exceeds maximum size limit", <<>>)
    ELSE Nil

\* executor.go:201-216
outputLimitError(cfg, stdoutBuf, stderrBuf) ==
    IF cfg.MaxOutputSize > 0 /\ Len(stdoutBuf) > cfg.MaxOutputSize
    THEN Errorf("stdout exceeds maximum size limit", <<>>)
    ELSE IF cfg.MaxOutputSize > 0 /\ Len(stderrBuf) > cfg.MaxOutputSize
    THEN Errorf("stderr exceeds maximum size limit", <<>>)
    ELSE Nil

\* mutant: the exit code is set for exit errors only, any other error leaves
\* it at its initial 0
exitStatus_NoDefault(runErr) ==
    IF runErr.kind # "nil"
    THEN [status   |-> "error",
          exitCode |-> IF runErr.kind = "ExitError" THEN runErr.code ELSE 0]
    ELSE [status |-> "success", exitCode |-> 0]

\* executor.go:218-227: [status, exitCode]
exitStatus(runErr) ==
    IF runErr.kind # "nil"
    THEN [status   |-> "error",
          exitCode |-> IF runErr.kind = "ExitError" THEN runErr.code ELSE -1]
    ELSE [status |-> "success", exitCode |-> 0]

\* mutant: the trailing newlines are trimmed before the bytes are encoded
encodeOutput_TrimThenEncode(buf, useBase64) ==
    IF useBase64 THEN EncodeToString(TrimRight(buf, {"\n"})) ELSE TrimRight(buf, {"\n"})

\* executor.go:229-236
encodeOutput(buf, useBase64) ==
    IF useBase64 THEN EncodeToString(buf) ELSE TrimRight(buf, {"\n"})

\* the (*ExecutionResult, error) pair of a call that returned an error
executionError(e) ==
    [err |-> e, status |-> "", exitCode |-> 0, stdout |-> <<>>, stderr |-> <<>>,
     SecurityInfo |-> NoSecurityInfo]

\* mutant: an error of cmd.Run that is no exit error is returned as the error
\* of the call
executeSecureCommand_RunErrorReturned(cfg, runErr, stdoutBuf, stderrBuf, useBase64) ==
    LET tooBig == outputLimitError(cfg, stdoutBuf, stderrBuf)
        st     == exitStatus(runErr)
    IN  IF tooBig.err THEN executionError(tooBig)
        ELSE IF runErr.kind = "other"
        THEN executionError(Errorf("command execution failed: %w", <<>>))
        ELSE [err      |-> Nil,
              status   |-> st.status,
              exitCode |-> st.exitCode,
              stdout   |-> encodeOutput(stdoutBuf, useBase64),
              stderr   |-> encodeOutput(stderrBuf, useBase64),
              SecurityInfo |-> NoSecurityInfo]

\* executor.go:201-245: the value executeSecureCommand returns when cmd.Run
\* returned runErr and the buffers hold stdoutBuf and stderrBuf
executeSecureCommand(cfg, runErr, stdoutBuf, stderrBuf, useBase64) ==
    LET tooBig == outputLimitError(cfg, stdoutBuf, stderrBuf)
        st     == exitStatus(runErr)
    IN  IF tooBig.err THEN executionError(tooBig)
        ELSE [err      |-> Nil,
              status   |-> st.status,
              exitCode |-> st.exitCode,
              stdout   |-> encodeOutput(stdoutBuf, useBase64),
              stderr   |-> encodeOutput(stderrBuf, useBase64),
              SecurityInfo |-> NoSecurityInfo]

\* mutant: the working directory is left out of the SecurityInfo
securityInfo_NoDirectory(cfg) ==
    [set |-> TRUE, SecurityEnabled |-> cfg.Enabled, WorkingDir |-> <<>>,
     RunAsUser |-> cfg.RunAsUser, TimeoutApplied |-> TRUE]

\* executor.go:77-88: the SecurityInfo of a result
securityInfo(cfg) ==
    [set |-> TRUE, SecurityEnabled |-> cfg.Enabled, WorkingDir |-> cfg.WorkingDirectory,
     RunAsUser |-> cfg.RunAsUser, TimeoutApplied |-> TRUE]

\* executor.go:68-97: execute passes an error on and completes a result
execute(cfg, res) ==
    IF res.err.err THEN res ELSE [res EXCEPT !.SecurityInfo = securityInfo(cfg)]

(***************************************************************************)
(* handler.go: one handle call at a time, in the steps                     *)
(*   idle -> validate -> execute -> running -> done -> idle                *)
(***************************************************************************)
\* the largest exit code of a child, and the most bytes a child writes to its
\* two streams together
MaxExitCode == 2
MaxOutLen == 2

HandlerCommands ==
    { sL, sR, sBinL, <<"l", " ", "r">>, <<" ", "l", " ">>, <<>>, <<" ">>,
      <<".", "/", "l">>, <<"l", ";", "r">>, <<"r", " ", "l">>, <<"l", " ", ">", "r">>,
      <<"l", " ", "$", "(", "r", ")">>, <<"l", " ", "$", "(", "l", ")">>, <<".">> }

Requests ==
    [hasCommand : {TRUE}, command : HandlerCommands, base64 : BOOLEAN]
        \cup [hasCommand : {FALSE}, command : {<<>>}, base64 : BOOLEAN]

HandlerConfigs ==
    { SecurityConfig(FALSE, FALSE, <<>>, <<>>, <<>>, <<>>),
      SecurityConfig(FALSE, TRUE, <<>>, <<>>, <<sR>>, <<>>),
      SecurityConfig(TRUE, FALSE, <<>>, <<>>, <<>>, <<>>),
      SecurityConfig(TRUE, FALSE, <<sL>>, <<>>, <<>>, <<>>),
      SecurityConfig(TRUE, FALSE, <<sBinL, sR>>, <<>>, <<>>, <<>>),
      SecurityConfig(TRUE, TRUE, <<>>, <<>>, <<>>, <<>>),
      SecurityConfig(TRUE, TRUE, <<>>, <<sL>>, <<sR>>, << <<"r", ".">> >>),
      [SecurityConfig(TRUE, FALSE, <<sL>>, <<>>, <<>>, <<>>) EXCEPT !.MaxOutputSize = 1],
      [SecurityConfig(FALSE, TRUE, <<>>, <<>>, <<>>, <<>>) EXCEPT !.MaxOutputSize = 1] }

\* configurations with a working directory and a user for the child
sUser == <<"u">>
HardenedConfig ==
    [SecurityConfig(TRUE, FALSE, <<sL>>, <<>>, <<>>, <<>>)
        EXCEPT !.WorkingDirectory = sWork, !.RunAsUser = sUser]
ShellInDirectory ==
    [SecurityConfig(FALSE, TRUE, <<>>, <<>>, <<>>, <<>>) EXCEPT !.WorkingDirectory = sWork]
\* the allowlist names a file of the root directory
RootAllowlist == SecurityConfig(TRUE, FALSE, <<sRootL>>, <<>>, <<>>, <<>>)

\* the user as the user database has it: with numeric ids, or with ids that
\* are no numbers
KnownUser == [name |-> sUser, Uid |-> <<"7">>, Gid |-> <<"1", "0">>]
ForeignUser == [name |-> sUser, Uid |-> <<"S", "-", "1">>, Gid |-> <<"7">>]

EnvWith(dirs, users, privileged) ==
    [EnvPathHit EXCEPT !.dirs = dirs, !.users = users, !.privileged = privileged]

\* the directory can be made or not, the user is known with numeric ids,
\* known without, or unknown, and the engine may or may not change identity
HardenedEnvs ==
    { EnvWith({sWork}, {KnownUser}, TRUE),
      EnvWith({}, {KnownUser}, TRUE),
      EnvWith({sWork}, {}, TRUE),
      EnvWith({sWork}, {ForeignUser}, TRUE),
      EnvWith({}, {}, FALSE),
      EnvWith({sWork}, {KnownUser}, FALSE) }

\* mcp.NewToolResultError
NewToolResultError(text, e) ==
    [returned |-> TRUE, IsError |-> TRUE, text |-> text, err |-> e,
     status |-> "", exitCode |-> 0, stdout |-> <<>>, stderr |-> <<>>,
     security_info |-> NoSecurityInfo]

\* mcp.NewToolResultText of the marshalled response
NewToolResultText(res) ==
    [returned |-> TRUE, IsError |-> FALSE, text |-> "json", err |-> Nil,
     status |-> res.status, exitCode |-> res.exitCode,
     stdout |-> res.stdout, stderr |-> res.stderr,
     security_info |-> res.SecurityInfo]

\* mutant: a result with status "error" is returned as a tool error
executeResult_StatusErrorFlagged(res) ==
    IF res.err.err
    THEN NewToolResultError(res.err.msg, res.err)
    ELSE IF res.status = "error"
         THEN NewToolResultError("command failed", Nil)
         ELSE NewToolResultText(res)

\* handler.go:145-178: the CallToolResult for what execute returned
executeResult(res) ==
    IF res.err.err
    THEN NewToolResultError(res.err.msg, res.err)
    ELSE NewToolResultText(res)

Init ==
    /\ \/ config \in HandlerConfigs /\ env \in {EnvPathHit, EnvCwdOnly}
       \/ config = HardenedConfig /\ env \in HardenedEnvs
       \/ config = ShellInDirectory
            /\ env \in {EnvWith({sWork}, {}, FALSE), EnvWith({}, {}, FALSE)}
       \/ config = RootAllowlist /\ env = EnvPathHit
    /\ pc = "idle"
    /\ command = <<>>
    /\ decision = NoDecision
    /\ probeExe = <<>>
    /\ probePat = <<>>
    /\ probeRes = FALSE
    /\ parseRes = NoParse
    /\ HandlerIdle

\* mutant: a request without the field is handled as the empty command
HandleRequest_MissingAsEmpty ==
    /\ pc = "idle"
    /\ \E req \in Requests :
          /\ request' = req
          /\ command' = req.command
          /\ pc' = "validate"
    /\ handleErr' = Nil
    /\ UNCHANGED <<config, env, decision, probeVars, callVars, child, result, allowed, ctx>>

\* handler.go:120-126: the request arrives, RequireString("command")
HandleRequest ==
    /\ pc = "idle"
    /\ \E req \in Requests :
          /\ request' = req
          /\ IF ~req.hasCommand
             THEN /\ result' = NewToolResultError("Missing 'command' parameter", Nil)
                  /\ pc' = "done"
                  /\ UNCHANGED command
             ELSE /\ command' = req.command
                  /\ pc' = "validate"
                  /\ UNCHANGED result
    /\ handleErr' = Nil
    /\ UNCHANGED <<config, env, decision, probeVars, callVars, child, allowed, ctx>>

\* mutant: a denial is logged but the call goes on to execute
Validate_IgnoreDenial ==
    /\ pc = "validate"
    /\ decision' = validateCommand(config, env, command)
    /\ allowed' = IF decision'.err THEN allowed ELSE allowed \cup {command}
    /\ pc' = "execute"
    /\ UNCHANGED <<config, env, command, probeVars, callVars, request, child, result,
                   ctx, handleErr>>

\* handler.go:135-141: validateCommand, and the denial returned
Validate ==
    /\ pc = "validate"
    /\ decision' = validateCommand(config, env, command)
    /\ IF decision'.err
       THEN /\ result' = NewToolResultError("Security violation: %s", decision')
            /\ pc' = "done"
            /\ UNCHANGED allowed
       ELSE /\ allowed' = allowed \cup {command}
            /\ pc' = "execute"
            /\ UNCHANGED result
    /\ UNCHANGED <<config, env, command, probeVars, callVars, request, child, ctx, handleErr>>

\* handler.go:143-152 with executor.go:60-68,139-199: the timeout scope is
\* derived from the caller's context, which may be cancelled already; the
\* command is built and cmd.Run starts the child.  A parse error makes
\* execute return the error; a failed start makes cmd.Run return at once
\* with empty buffers.  A started child may start processes of its own,
\* which inherit the pipes of its output.
ExecuteStart ==
    /\ pc = "execute"
    /\ \E c \in {"live", "done"}, d \in BOOLEAN, built \in {buildCommand(config, env, command)} :
          /\ ctx' = c
          /\ IF built.err.err
             THEN /\ result' = executeResult(execute(config, executionError(built.err)))
                  /\ pc' = "done"
                  /\ UNCHANGED child
             ELSE IF ~canStart(env, configureCommand(config, env, built.cmd)) \/ c = "done"
                  THEN /\ result' = executeResult(execute(config,
                                       executeSecureCommand(config, OtherError, <<>>, <<>>,
                                                            request.base64)))
                       /\ pc' = "done"
                       /\ UNCHANGED child
                  ELSE /\ child' =
                            LET cmd == configureCommand(config, env, built.cmd) IN
                            [NoChild EXCEPT !.state = "running",
                                            !.path = cmd.Path,
                                            !.argv = cmd.Args,
                                            !.command = command,
                                            !.descendants = d,
                                            !.dir = cmd.Dir,
                                            !.credential = cmd.Credential]
                       /\ pc' = "running"
                       /\ UNCHANGED result
    /\ UNCHANGED <<config, env, command, decision, probeVars, callVars, request, allowed,
                   handleErr>>

\* executor.go:195-197: the child writes a byte to its stdout or its stderr,
\* which the copying goroutine appends to the buffer
ChildWrites ==
    /\ pc = "running"
    /\ child.state = "running"
    /\ Len(child.stdout) + Len(child.stderr) < MaxOutLen
    /\ \E b \in OutputBytes :
          \/ child' = [child EXCEPT !.stdout = Append(@, b)]
          \/ child' = [child EXCEPT !.stderr = Append(@, b)]
    /\ UNCHANGED <<config, env, pc, command, decision, probeVars, callVars, request, result,
                   allowed, ctx, handleErr>>

\* the child exits by itself with some exit code
ChildExits ==
    /\ pc = "running"
    /\ child.state = "running"
    /\ \E code \in 0..MaxExitCode :
          child' = [child EXCEPT !.state = "exited", !.code = code]
    /\ UNCHANGED <<config, env, pc, command, decision, probeVars, callVars, request, result,
                   allowed, ctx, handleErr>>

\* executor.go:65: the deadline of the timeout scope passes, or the caller
\* cancels
ContextDone ==
    /\ pc = "running"
    /\ ctx = "live"
    /\ ctx' = "done"
    /\ UNCHANGED <<config, env, pc, command, decision, probeVars, callVars, request, child,
                   result, allowed, handleErr>>

\* executor.go:146,163: exec.CommandContext kills the process once the
\* context is done; a process that has exited but is not yet waited for
\* takes the signal without effect
KillChild ==
    /\ pc = "running"
    /\ ctx = "done"
    /\ child.state \in {"running", "exited"}
    /\ ~child.signalled
    /\ child' = [child EXCEPT !.signalled = TRUE,
                              !.state = IF @ = "running" THEN "killed" ELSE @]
    /\ UNCHANGED <<config, env, pc, command, decision, probeVars, callVars, request, result,
                   allowed, ctx, handleErr>>

\* the processes the child started end and close their ends of the pipes
DescendantsExit ==
    /\ pc = "running"
    /\ child.descendants
    /\ child' = [child EXCEPT !.descendants = FALSE]
    /\ UNCHANGED <<config, env, pc, command, decision, probeVars, callVars, request, result,
                   allowed, ctx, handleErr>>

\* executor.go:199-245 and handler.go:145-178: cmd.Run returns once the
\* child has ended and the pipes of its output are at end of file (the
\* buffers are not files, so Wait also waits for the copying to complete);
\* the result is assembled and handed to the caller
WaitReturns ==
    /\ pc = "running"
    /\ child.state \in {"exited", "killed"}
    /\ ~child.descendants
    /\ result' = executeResult(execute(config,
                    executeSecureCommand(config, waitError(child), child.stdout,
                                         child.stderr, request.base64)))
    /\ pc' = "done"
    /\ UNCHANGED <<config, env, command, decision, probeVars, callVars, request, child,
                   allowed, ctx, handleErr>>

\* handle has returned; the next request starts from scratch
Return ==
    /\ pc = "done"
    /\ pc' = "idle"
    /\ command' = <<>>
    /\ decision' = NoDecision
    /\ request' = NoRequest
    /\ child' = NoChild
    /\ result' = NoResult
    /\ allowed' = {}
    /\ ctx' = "none"
    /\ handleErr' = Nil
    /\ UNCHANGED <<config, env, probeVars, callVars>>

Next ==
    \/ HandleRequest
    \/ Validate
    \/ ExecuteStart
    \/ ChildWrites
    \/ ChildExits
    \/ ContextDone
    \/ KillChild
    \/ DescendantsExit
    \/ WaitReturns
    \/ Return

Spec == Init /\ [][Next]_vars

(***************************************************************************)
(* The handle call under the scheduling the runtime guarantees: the        *)
(* goroutine of the call goes on whenever it can (Validate, ExecuteStart,  *)
(* WaitReturns, Return), the timer of context.WithTimeout fires            *)
(* (ContextDone) and the goroutine watching the context kills the process  *)
(* (KillChild).  Nothing makes a request arrive, a child write or exit, or *)
(* the processes it started end.                                           *)
(***************************************************************************)
LiveConfigs ==
    { SecurityConfig(FALSE, TRUE, <<>>, <<>>, <<>>, <<>>),
      SecurityConfig(TRUE, FALSE, <<sL>>, <<>>, <<>>, <<>>) }

InitLive ==
    /\ config \in LiveConfigs
    /\ env = EnvPathHit
    /\ pc = "idle"
    /\ command = <<>>
    /\ decision = NoDecision
    /\ probeExe = <<>>
    /\ probePat = <<>>
    /\ probeRes = FALSE
    /\ parseRes = NoParse
    /\ HandlerIdle

\* execute goes on from its entry: ExecuteStart is possible exactly when pc is
\* "execute", and it is the only step that changes pc there
ExecuteGoesOn == pc = "execute" /\ pc' \in {"running", "done"}

\* the other steps that are taken whenever they stay possible
Scheduled ==
    \/ Validate
    \/ ContextDone
    \/ KillChild
    \/ WaitReturns
    \/ Return

Fairness == WF_vars(Scheduled) /\ WF_pc(ExecuteGoesOn)

SpecLive == InitLive /\ [][Next]_vars /\ Fairness

(***************************************************************************)
(* Properties                                                              *)
(***************************************************************************)
Returned == pc = "returned"

\* the command's first whitespace-delimited token; only used when there is one
FirstToken(c) == Fields(c)[1]

SecureFlags == config.Enabled /\ ~config.UseShellExecution
SecureMode == SecureFlags /\ config.AllowedExecutables # <<>>
LegacyMode == config.Enabled /\ config.UseShellExecution

\* the characters the specification lists for secure mode
ListedMetachars ==
    {"|", "&", ";", "<", ">", "(", ")", "{", "}", "[", "]", "$", Backquote, "\\"}

HasListedMetachar(c) == \E i \in 1..Len(c) : c[i] \in ListedMetachars

\* C1: with enabled=true and useShellExecution=false, whatever the allowlist
\* holds, a command containing one of | & ; < > ( ) { } [ ] $ backquote
\* backslash anywhere is denied by validateCommand.
C1_MetacharDenied ==
    (Returned /\ SecureFlags /\ HasListedMetachar(command)) => decision.err

\* C1 witness: a command whose executable is allowlisted and would pass, but
\* which carries a metacharacter, has been denied.
C1_Witness ==
    /\ Returned /\ SecureMode /\ HasListedMetachar(command)
    /\ Fields(command) # <<>>
    /\ \E k \in 1..Len(config.AllowedExecutables) :
           FirstToken(command) = config.AllowedExecutables[k]
    /\ decision.err

\* the three ways the specification lets a candidate match an allowlist entry
EntryMatches(e, exe, entry) ==
    \/ exe = entry
    \/ IsAbs(entry) /\ Abs(e, exe).ok /\ Abs(e, exe).path = entry
    \/ ~IsAbs(entry) /\ ~IsAbs(exe) /\ Base(exe) = entry /\ LookPath(e, exe).ok

NoEntryMatches ==
    /\ Fields(command) # <<>>
    /\ \A k \in 1..Len(config.AllowedExecutables) :
           ~EntryMatches(env, FirstToken(command), config.AllowedExecutables[k])

\* C3 as stated: in secure mode with a non-empty allowlist, a command whose
\* first token matches no entry is denied with a reason containing
\* "not in allowed list".
C3_DeniedNotInList ==
    (Returned /\ SecureMode /\ NoEntryMatches)
        => (decision.err /\ decision.msg = "executable '%s' not in allowed list")

\* C3 amended: such a command is always denied; the reason is
\* "executable '<token>' not in allowed list" when the command holds no shell
\* metacharacter, and the metacharacter denial otherwise.
C3_DeniedAmended ==
    (Returned /\ SecureMode /\ NoEntryMatches)
        => /\ decision.err
           /\ IF HasListedMetachar(command)
              THEN decision.msg =
                      "command contains shell metacharacters (not allowed in secure mode): %s"
              ELSE /\ decision.msg = "executable '%s' not in allowed list"
                   /\ decision.arg = FirstToken(command)

\* C3 witness: a metacharacter-free command whose executable exists but is not
\* allowlisted has been denied as not in the allowed list.
C3_Witness ==
    /\ Returned /\ SecureMode /\ NoEntryMatches
    /\ ~HasListedMetachar(command)
    /\ LookPath(env, FirstToken(command)).ok
    /\ decision.msg = "executable '%s' not in allowed list"

\* C4 as stated: matchesExecutable never matches an absolute candidate against
\* a relative entry nor a relative candidate against an absolute entry.
C4_NeverAcrossKinds ==
    (Returned /\ probeRes) => (IsAbs(probeExe) <=> IsAbs(probePat))

\* C4 amended: an absolute candidate is never matched against a relative
\* entry; a relative candidate is matched against an absolute entry only when
\* the working directory is known and joining the candidate to it gives
\* exactly the entry.
C4_AcrossKindsAmended ==
    (Returned /\ probeRes)
        => /\ IsAbs(probeExe) => IsAbs(probePat)
           /\ (~IsAbs(probeExe) /\ IsAbs(probePat))
                  => (env.cwd # <<>> /\ Clean(env.cwd \o Slash \o probeExe) = probePat)

\* C4 witness: an absolute candidate that names an existing program whose
\* basename is the relative entry has been refused.
C4_Witness ==
    /\ Returned /\ IsAbs(probeExe) /\ ~IsAbs(probePat)
    /\ Base(probeExe) = probePat
    /\ findExecutable(env, probeExe)
    /\ ~probeRes

\* a name without a separator found in some directory of the search path
FoundInSearchPath(e, exe) ==
    /\ ~ContainsRune(exe, "/")
    /\ \E k \in 1..Len(e.path) : findExecutable(e, Join(e.path[k], exe))

\* C5: a relative candidate that differs from a relative entry is accepted
\* only if its basename equals the entry and the candidate resolves through
\* the search path; a candidate found only relative to the working directory
\* (./ls) is not accepted against the bare entry.
C5_BasenameNeedsSearchPath ==
    (Returned /\ probeRes /\ probeExe # probePat /\ ~IsAbs(probeExe) /\ ~IsAbs(probePat))
        => (Base(probeExe) = probePat /\ FoundInSearchPath(env, probeExe))

\* C6: with enabled=true, useShellExecution=false and an empty allowlist every
\* command is denied with "no allowed executables configured".
C6_FailClosed ==
    (Returned /\ SecureFlags /\ config.AllowedExecutables = <<>>)
        => /\ decision.err
           /\ decision.msg =
                  "no allowed executables configured - all commands blocked for security"

\* C6 witness: a plain command naming a program found in PATH has been denied
\* for the missing allowlist.
C6_Witness ==
    /\ Returned /\ SecureFlags /\ config.AllowedExecutables = <<>>
    /\ command = sL /\ LookPath(env, sL).ok
    /\ decision.err

\* C7: with enabled=false validateCommand allows every command, whatever the
\* mode flag, the allowlists, the blocklists and the patterns hold.
C7_DisabledAllowsAll ==
    (Returned /\ ~config.Enabled) => decision = Nil

\* C7 witness: disabled, shell mode, a blocked keyword and a blocked pattern
\* both hit the command, and it has been allowed.
C7_Witness ==
    /\ Returned /\ ~config.Enabled /\ config.UseShellExecution
    /\ \E k \in 1..Len(config.BlockedCommands) :
           Contains(command, config.BlockedCommands[k])
    /\ \E k \in 1..Len(config.BlockedPatterns) :
           MatchString(config.BlockedPatterns[k], command).matched
    /\ HasListedMetachar(command)
    /\ decision = Nil

\* C8: for enabled configurations, with useShellExecution=true the decision
\* does not depend on allowedExecutables, and with useShellExecution=false it
\* does not depend on allowedCommands, blockedCommands and blockedPatterns.
C8_OnePathGoverns ==
    (Returned /\ config.Enabled)
        => IF config.UseShellExecution
           THEN \A ae \in AllowedExecutableLists :
                    validateCommand([config EXCEPT !.AllowedExecutables = ae],
                                    env, command) = decision
           ELSE \A ac \in AllowedCommandLists, bc \in BlockedCommandLists,
                   bp \in BlockedPatternLists :
                    validateCommand([config EXCEPT !.AllowedCommands = ac,
                                                   !.BlockedCommands = bc,
                                                   !.BlockedPatterns = bp],
                                    env, command) = decision

\* C8 witness: a legacy-mode call was allowed although the configured
\* allowlist of executables does not hold the command's executable.
C8_Witness ==
    /\ Returned /\ LegacyMode
    /\ config.AllowedExecutables = <<sL>>
    /\ command = sR
    /\ decision = Nil

PatternHit ==
    \E k \in 1..Len(config.BlockedPatterns) :
        LET m == MatchString(config.BlockedPatterns[k], command)
        IN  ~m.err /\ m.matched

KeywordHit ==
    \E k \in 1..Len(config.BlockedCommands) :
        Contains(command, config.BlockedCommands[k])

PrefixMiss ==
    /\ config.AllowedCommands # <<>>
    /\ \A k \in 1..Len(config.AllowedCommands) :
           ~HasPrefix(TrimSpace(command), config.AllowedCommands[k])

\* C9: legacy validation denies iff (a) a blocked pattern matches the raw
\* command, (b) a blocked keyword is a substring of it, or (c) the allowlist
\* of commands is non-empty and the trimmed command starts with none of its
\* entries; the reason is that of the first of (a), (b), (c) that applies.
C9_LegacyDecision ==
    (Returned /\ LegacyMode)
        => /\ decision.err <=> (PatternHit \/ KeywordHit \/ PrefixMiss)
           /\ PatternHit => decision.msg = "command matches blocked pattern: %s"
           /\ (~PatternHit /\ KeywordHit)
                  => decision.msg = "command contains blocked keyword: %s"
           /\ (~PatternHit /\ ~KeywordHit /\ PrefixMiss)
                  => decision.msg = "command not in allowed list"

\* C9 witness: all three grounds apply to one command and the pattern is the
\* reason reported.
C9_Witness ==
    /\ Returned /\ LegacyMode
    /\ PatternHit /\ KeywordHit /\ PrefixMiss
    /\ decision.msg = "command matches blocked pattern: %s"

\* the shell constructs the claim names
ShellConstructs ==
    { <<"$", "(">>, <<Backquote>>, <<"$", "{">>, <<"|">>, <<";">>, <<"&">> }

HasShellConstruct(c) == \E x \in ShellConstructs : Contains(c, x)

\* C10: legacy validation never denies a command for its shell constructs: a
\* command with $( , backquotes, ${ , pipes, ; or & is allowed whenever no
\* blocked keyword occurs in its text, no blocked pattern matches it and the
\* prefix rule is met.
C10_LegacyAllowsConstructs ==
    (Returned /\ LegacyMode /\ HasShellConstruct(command)
        /\ ~PatternHit /\ ~KeywordHit /\ ~PrefixMiss)
        => decision = Nil

\* C10 witness: keywords, patterns and the prefix list are all configured, and
\* a command substitution none of them catches has been allowed.
C10_Witness ==
    /\ Returned /\ LegacyMode
    /\ config.BlockedCommands # <<>> /\ config.BlockedPatterns # <<>>
    /\ config.AllowedCommands # <<>>
    /\ Contains(command, <<"$", "(">>)
    /\ decision = Nil

\* C2: a child process exists only for a command that validateCommand
\* allowed earlier in the same handle call, and a call whose command was
\* denied has no child process.
C2_ChildOnlyAfterAllow ==
    /\ child.state # "none"
          => /\ child.command = command
             /\ command \in allowed
             /\ decision = Nil
             /\ validateCommand(config, env, child.command) = Nil
    /\ decision.err => child.state = "none"

\* C2 witness: security is enabled and the child of an allowed command runs.
C2_Witness ==
    /\ config.Enabled
    /\ pc = "running"
    /\ child.state = "running"
    /\ command \in allowed

(***************************************************************************)
(* Properties of the handle call                                           *)
(***************************************************************************)
\* validateCommand has been called in this handle call
Validated == decision # NoDecision

\* execute has not been entered in this handle call
NotExecuted == pc \notin {"execute", "running"} /\ child = NoChild /\ ctx = "none"

\* a token after the first holds a command substitution
ArgHasSubstitution(c) ==
    \E k \in 2..Len(Fields(c)) : Contains(Fields(c)[k], <<"$", "(">>)

FirstTokenAllowlisted ==
    /\ Fields(command) # <<>>
    /\ \E k \in 1..Len(config.AllowedExecutables) :
           matchesExecutable(env, FirstToken(command), config.AllowedExecutables[k])

DeniedAsDangerous ==
    /\ decision.err
    /\ decision.msg =
           "command contains dangerous shell constructs (not allowed in secure mode): %s"

DeniedAsMetachar ==
    /\ decision.err
    /\ decision.msg =
           "command contains shell metacharacters (not allowed in secure mode): %s"

\* C11 as stated: in secure mode a command with an allowlisted executable and
\* an argument holding a command substitution is denied at validation with a
\* reason containing "dangerous shell constructs", and execution is never
\* reached.
C11_SubstitutionDeniedAsDangerous ==
    (Validated /\ SecureMode /\ FirstTokenAllowlisted /\ ArgHasSubstitution(command))
        => (DeniedAsDangerous /\ NotExecuted)

\* C11 amended: such a command is denied at validation with a reason
\* containing "shell metacharacters" (the metacharacter check comes first and
\* catches the "$" and the parenthesis), and execution is never reached.
C11_SubstitutionDeniedAsMetachar ==
    (Validated /\ SecureMode /\ FirstTokenAllowlisted /\ ArgHasSubstitution(command))
        => (DeniedAsMetachar /\ NotExecuted)

\* C11 witness: the handle call of such a command has returned the denial as
\* a security violation, and no child was started.
C11_Witness ==
    /\ pc = "done" /\ SecureMode /\ FirstTokenAllowlisted
    /\ ArgHasSubstitution(command)
    /\ result.IsError /\ result.text = "Security violation: %s"
    /\ result.err = decision /\ DeniedAsMetachar
    /\ child = NoChild

\* the file a name given to exec.Command stands for: a name with a separator
\* as it is, any other name as found in the search path
ProgramOf(name) ==
    IF ContainsRune(name, "/") THEN name ELSE LookPath(env, name).path

\* C12: in secure execution mode the child is started directly, its argv being
\* exactly the whitespace tokens of the command and its program the first
\* token's, with no shell in between; in shell mode the child is bash with the
\* raw command string as the single argument after -c.  Which of the two it
\* is depends on useShellExecution only.
C12_ArgvByMode ==
    child.state # "none"
        => IF config.UseShellExecution
           THEN /\ child.argv = <<sBash, <<"-", "c">>, child.command>>
                /\ child.path = ProgramOf(sBash)
                /\ child.command = request.command
           ELSE /\ child.argv = Fields(request.command)
                /\ child.path = ProgramOf(child.argv[1])

\* C12 witness: without shell execution, a child runs whose argv holds an
\* argument besides the executable, taken from a command with whitespace
\* around its tokens.
C12_Witness ==
    /\ child.state = "running"
    /\ ~config.UseShellExecution
    /\ Len(child.argv) = 2
    /\ child.argv = <<sL, sR>>
    /\ child.path = sBinL

\* shell mode, for the same purpose: bash runs with a command that starts and
\* ends with a space, unchanged
ShellChildRuns ==
    /\ child.state = "running"
    /\ config.UseShellExecution
    /\ child.argv[3] = <<" ", "l", " ">>

\* execute turned the command down before starting anything
RejectedByExecutor ==
    /\ result.IsError
    /\ result.text = "command parsing failed: %w"
    /\ child = NoChild

\* C13: with security disabled every command string that names something to
\* run, those with pipes, chaining, redirection or substitution included, is
\* accepted by validation and is executed, not rejected by the executor.
C13_DisabledRunsEverything ==
    (pc = "done" /\ ~config.Enabled /\ request.hasCommand /\ Fields(command) # <<>>)
        => (decision = Nil /\ ~RejectedByExecutor)

\* C14: handle returns a nil Go error and a result for every request, be it
\* without a command, denied, failed in execution or successful; a request
\* without a string field "command" gets the tool error "Missing 'command'
\* parameter", and nothing is validated or executed for it.
C14_AlwaysAResult ==
    /\ handleErr = Nil
    /\ pc = "done"
          => /\ result.returned
             /\ ~request.hasCommand
                   => /\ result = NewToolResultError("Missing 'command' parameter", Nil)
                      /\ ~Validated
                      /\ allowed = {}
                      /\ NotExecuted

\* C14 witness: with security enabled, the call of a request without a
\* command has returned the tool error.
C14_Witness ==
    /\ pc = "done"
    /\ config.Enabled
    /\ ~request.hasCommand
    /\ result.IsError /\ result.text = "Missing 'command' parameter"
    /\ handleErr = Nil

\* execute was called for the command of this handle call
ExecuteCalled == Validated /\ decision = Nil /\ pc \in {"running", "done"}

\* the command was built, but no child came of it: the lookup or the start
\* failed, or the context was done before the start
StartFailed ==
    /\ pc = "done" /\ ExecuteCalled
    /\ ~buildCommand(config, env, command).err.err
    /\ child = NoChild

\* the child was terminated because the timeout scope ended
TimedOut == pc = "done" /\ child.state = "killed" /\ ctx = "done"

\* a stream of the child holds more bytes than the configured limit
SizeExceeded ==
    /\ pc = "done" /\ child.state # "none"
    /\ config.MaxOutputSize > 0
    /\ \/ Len(child.stdout) > config.MaxOutputSize
       \/ Len(child.stderr) > config.MaxOutputSize

SizeLimitErrors ==
    {"stdout exceeds maximum size limit", "stderr exceeds maximum size limit"}

ErrorPayload == ~result.IsError /\ result.status = "error" /\ result.exitCode = -1

\* C15 as stated: every execution failure (the child could not be started, the
\* output-size limit was exceeded, the timeout expired or the call was
\* cancelled) is reported by the handler as a tool-level error result, never
\* as a normal result payload.
C15_FailuresAreToolErrors ==
    (StartFailed \/ SizeExceeded \/ TimedOut) => result.IsError

\* C15 amended: of the execution failures, an exceeded output-size limit is
\* reported as a tool-level error result; a failure to start the child and a
\* timeout or cancellation are reported as a normal result payload with
\* status "error" and exit code -1, unless the output exceeds the limit too.
C15_FailuresByKind ==
    (StartFailed \/ SizeExceeded \/ TimedOut)
        => IF SizeExceeded
           THEN result.IsError /\ result.text \in SizeLimitErrors
           ELSE ErrorPayload

\* C15 witness: a size limit is configured and kept, the child was killed on
\* timeout, and the call returned the payload with exit code -1.
C15_Witness ==
    /\ TimedOut /\ ~SizeExceeded
    /\ config.MaxOutputSize > 0
    /\ child.stdout # <<>>
    /\ ErrorPayload

\* the other failure that is no tool error: the program was not found
StartFailureReported == StartFailed /\ ctx = "live" /\ ErrorPayload

\* the child ended by itself with a non-zero exit code
ExitedNonZero == pc = "done" /\ child.state = "exited" /\ child.code # 0

\* C16 as stated: a child that exits with a non-zero code is reported as a
\* normal result: execute returns no error, status is "error", exitCode is
\* the child's exit code, and the handler returns the payload without the
\* error flag.
C16_NonZeroExitIsResult ==
    ExitedNonZero
        => /\ ~result.IsError /\ result.err = Nil
           /\ result.status = "error"
           /\ result.exitCode = child.code

\* C16 amended: the same, provided no stream of the child holds more bytes
\* than a configured maxOutputSize; if one does, the size-limit error is
\* returned instead, as for any other exit status.
C16_NonZeroExitWithinLimit ==
    ExitedNonZero
        => IF SizeExceeded
           THEN result.IsError /\ result.text \in SizeLimitErrors
           ELSE /\ ~result.IsError /\ result.err = Nil
                /\ result.status = "error"
                /\ result.exitCode = child.code

\* C16 witness: a child that wrote to stderr and exited with code 2 has been
\* reported in a normal payload.
C16_Witness ==
    /\ ExitedNonZero /\ child.code = 2
    /\ child.stderr # <<>>
    /\ ~result.IsError
    /\ result.status = "error" /\ result.exitCode = 2

\* the timeout scope has ended while the child runs
CancelledWhileRunning == pc = "running" /\ ctx = "done" /\ child.state = "running"

\* execute has returned and its child is no longer running
ReturnedChildEnded == pc = "done" /\ child.state \in {"exited", "killed"}

\* C17: if the timeout scope expires or the caller cancels while the child is
\* running, the child process is terminated and execute eventually returns;
\* and execute has never returned while the child it started still runs.
C17_CancelEndsChildAndCall ==
    /\ [](pc = "done" => child.state # "running")
    /\ (CancelledWhileRunning ~> ReturnedChildEnded)

\* what does hold: execute returns only after its child has ended
ReturnedOnlyAfterChildEnded == pc \in {"done", "idle"} => child.state # "running"

\* what does hold: once the scope has ended the child itself ends, killed
\* unless it exits first
CancelEndsChild == CancelledWhileRunning ~> child.state \in {"exited", "killed"}

\* what does hold: the call returns if the processes the child started have
\* closed the pipes
CancelEndsCallWithoutDescendants ==
    (CancelledWhileRunning /\ ~child.descendants) ~> ReturnedChildEnded

SizeLimitReported == result.IsError /\ result.text \in SizeLimitErrors

\* C18: with maxOutputSize = N > 0 the child is first run to its end;
\* afterwards execute returns a size-limit error iff stdout or stderr holds
\* strictly more than N raw bytes, whatever the child's exit status; N bytes
\* on both streams do not trigger it, and N = 0 disables the check.
C18_SizeLimit ==
    /\ SizeLimitReported => (pc = "done" /\ child.state \in {"exited", "killed"})
    /\ (pc = "done" /\ child.state # "none")
          => (SizeLimitReported
                 <=> /\ config.MaxOutputSize > 0
                     /\ \/ Len(child.stdout) > config.MaxOutputSize
                        \/ Len(child.stderr) > config.MaxOutputSize)

\* C18 witness: the limit is 1, the child wrote exactly one byte to each
\* stream and failed, and the call returned its result, not the size error.
C18_Witness ==
    /\ pc = "done"
    /\ config.MaxOutputSize = 1
    /\ Len(child.stdout) = 1 /\ Len(child.stderr) = 1
    /\ child.state = "exited" /\ child.code # 0
    /\ ~SizeLimitReported
    /\ ~result.IsError

\* the other side: the limit is 1, a successful child wrote two bytes to
\* stderr, and the size error was returned
SizeLimitHit ==
    /\ pc = "done"
    /\ config.MaxOutputSize = 1
    /\ Len(child.stderr) = 2
    /\ child.state = "exited" /\ child.code = 0
    /\ result.IsError /\ result.text = "stderr exceeds maximum size limit"

\* execute has returned a result (not an error) to the handler
ResultReturned == pc = "done" /\ ExecuteCalled /\ ~result.IsError

\* the child ran and ended by itself with code 0, and the context gave no error
EndedClean ==
    child.state = "exited" /\ child.code = 0 /\ ~child.signalled

\* C19: in every result execute returns, status is "success" exactly when the
\* child ended with no process error, and exitCode is 0 then; a non-zero exit
\* gives status "error" with that code; any other failure (the child was not
\* started, was ended by a signal, the timeout) gives status "error" with
\* exitCode -1.  Hence status is "success" iff exitCode is 0.
C19_StatusAndExitCode ==
    ResultReturned
        => /\ result.status \in {"success", "error"}
           /\ result.status = "success" <=> EndedClean
           /\ EndedClean => result.exitCode = 0
           /\ (child.state = "exited" /\ child.code # 0)
                 => (result.status = "error" /\ result.exitCode = child.code)
           /\ (~EndedClean /\ ~(child.state = "exited" /\ child.code # 0))
                 => (result.status = "error" /\ result.exitCode = -1)
           /\ result.status = "success" <=> result.exitCode = 0

\* C19 witness: the child exited with code 0 just as the timeout expired, the
\* kill reached it before it was waited for, and the result is an error with
\* exit code -1.
C19_Witness ==
    /\ ResultReturned
    /\ child.state = "exited" /\ child.code = 0 /\ child.signalled
    /\ result.status = "error" /\ result.exitCode = -1

\* a clean end is reported as success
CleanEndReported ==
    ResultReturned /\ EndedClean /\ result.status = "success" /\ result.exitCode = 0

\* a string without its last character if that is a newline, unchanged otherwise
WithoutOneNewline(s) ==
    IF s # <<>> /\ s[Len(s)] = "\n" THEN SubSeq(s, 1, Len(s) - 1) ELSE s

\* C20: in text mode (base64=false) exactly one trailing newline is removed
\* from each of stdout and stderr: output ending in k >= 1 newlines is
\* returned ending in k-1 newlines, output without a trailing newline is
\* returned unchanged.
C20_OneNewlineTrimmed ==
    (ResultReturned /\ child.state # "none" /\ ~request.base64)
        => /\ result.stdout = WithoutOneNewline(child.stdout)
           /\ result.stderr = WithoutOneNewline(child.stderr)

\* what does hold: every trailing newline is removed, and nothing else
AllNewlinesTrimmed ==
    (ResultReturned /\ child.state # "none" /\ ~request.base64)
        => \A out \in {<<child.stdout, result.stdout>>, <<child.stderr, result.stderr>>} :
              /\ Len(out[2]) <= Len(out[1])
              /\ out[2] = SubSeq(out[1], 1, Len(out[2]))
              /\ \A i \in (Len(out[2]) + 1)..Len(out[1]) : out[1][i] = "\n"
              /\ out[2] # <<>> => out[2][Len(out[2])] # "\n"

\* base64 decoding as a client does it: the value of a character, four
\* characters to up to three bytes, "=" marking the bytes that are missing
sextetOf(ch) == (CHOOSE i \in 1..64 : encodeStd[i] = ch) - 1

byteChar(b) == IF b = 10 THEN "\n" ELSE IF b = 97 THEN "a" ELSE "?"

decodeGroup(cs) ==
    LET pad == Cardinality({i \in 3..4 : cs[i] = "="})
        s3  == IF cs[3] = "=" THEN 0 ELSE sextetOf(cs[3])
        s4  == IF cs[4] = "=" THEN 0 ELSE sextetOf(cs[4])
        v   == sextetOf(cs[1]) * 262144 + sextetOf(cs[2]) * 4096 + s3 * 64 + s4
        bs  == <<byteChar(v \div 65536), byteChar((v \div 256) % 256), byteChar(v % 256)>>
    IN  SubSeq(bs, 1, 3 - pad)

RECURSIVE DecodeString(_)
DecodeString(cs) ==
    IF Len(cs) < 4 THEN <<>>
    ELSE decodeGroup(SubSeq(cs, 1, 4)) \o DecodeString(SubSeq(cs, 5, Len(cs)))

\* a string is the base64 encoding of something: groups of four characters of
\* the alphabet, padded at the end only
WellEncoded(cs) ==
    /\ Len(cs) % 4 = 0
    /\ \A i \in 1..Len(cs) :
          \/ \E k \in 1..64 : encodeStd[k] = cs[i]
          \/ cs[i] = "=" /\ i > Len(cs) - 2 /\ \A j \in i..Len(cs) : cs[j] = "="

\* C21: with base64=true both stdout and stderr are base64-encoded, never one
\* of them alone, and decoding each returned stream gives exactly the raw
\* bytes the child wrote, a trailing newline included.
C21_Base64RoundTrip ==
    (ResultReturned /\ child.state # "none" /\ request.base64)
        => /\ WellEncoded(result.stdout) /\ WellEncoded(result.stderr)
           /\ DecodeString(result.stdout) = child.stdout
           /\ DecodeString(result.stderr) = child.stderr

\* C21 witness: the child wrote a newline to stdout and a byte to stderr, and
\* both came back encoded, the newline kept.
C21_Witness ==
    /\ ResultReturned /\ request.base64
    /\ child.stdout = <<"\n">> /\ child.stderr = <<"a">>
    /\ result.stdout = <<"C", "g", "=", "=">>
    /\ result.stderr = <<"Y", "Q", "=", "=">>

(***************************************************************************)
(* Concurrent calls: the server runs handle for several requests at once   *)
(* on one validator and one executor, each holding the configuration.      *)
(***************************************************************************)
CallCommands == {sL, sR, <<"l", ";", "r">>}

CallConfigs ==
    { SecurityConfig(TRUE, FALSE, <<sL>>, <<>>, <<>>, <<>>),
      SecurityConfig(TRUE, TRUE, <<>>, <<sL>>, <<sR>>, <<>>),
      SecurityConfig(FALSE, TRUE, <<>>, <<>>, <<>>, <<>>) }

InitCalls ==
    /\ config \in CallConfigs
    /\ env \in {EnvPathHit, EnvCwdOnly}
    /\ pc = "calls"
    /\ command = <<>>
    /\ decision = NoDecision
    /\ probeExe = <<>>
    /\ probePat = <<>>
    /\ probeRes = FALSE
    /\ parseRes = NoParse
    /\ HandlerIdle

\* handler.go:120-141: a call takes its command and validates it
CallValidate(i) ==
    /\ calls[i].pc = "idle"
    /\ \E c \in CallCommands :
          LET d == validateCommand(config, env, c) IN
          /\ calls' = [calls EXCEPT ![i] =
                          [pc |-> IF d.err THEN "returned" ELSE "execute",
                           command |-> c, decision |-> d]]
          /\ seen' = seen \cup {<<c, d>>}
    /\ UNCHANGED <<config, env, pc, command, decision, probeVars, handlerVars>>

\* mutant: the executor remembers what it ran and the configuration blocks it
CallExecute_RunOnce(i) ==
    /\ calls[i].pc = "execute"
    /\ LET built == buildCommand(config, env, calls[i].command) IN
       calls' = [calls EXCEPT ![i].pc =
                    IF built.err.err \/ ~canStart(env, configureCommand(config, env, built.cmd))
                    THEN "returned" ELSE "running"]
    /\ config' = [config EXCEPT !.BlockedCommands = Append(@, calls[i].command)]
    /\ UNCHANGED <<env, pc, command, decision, probeVars, handlerVars, seen>>

\* executor.go:48-98, 134-199: the call builds its command and starts its child
CallExecute(i) ==
    /\ calls[i].pc = "execute"
    /\ LET built == buildCommand(config, env, calls[i].command) IN
       calls' = [calls EXCEPT ![i].pc =
                    IF built.err.err \/ ~canStart(env, configureCommand(config, env, built.cmd))
                    THEN "returned" ELSE "running"]
    /\ UNCHANGED <<config, env, pc, command, decision, probeVars, handlerVars, seen>>

\* executor.go:199-245: the child of the call ends and execute returns
CallChildEnds(i) ==
    /\ calls[i].pc = "running"
    /\ calls' = [calls EXCEPT ![i].pc = "returned"]
    /\ UNCHANGED <<config, env, pc, command, decision, probeVars, handlerVars, seen>>

\* handler.go:178: the call is over, the next request may come
CallReturn(i) ==
    /\ calls[i].pc = "returned"
    /\ calls' = [calls EXCEPT ![i] = IdleCall]
    /\ UNCHANGED <<config, env, pc, command, decision, probeVars, handlerVars, seen>>

NextCalls ==
    \E i \in Callers :
        \/ CallValidate(i)
        \/ CallExecute(i)
        \/ CallChildEnds(i)
        \/ CallReturn(i)

SpecCalls == InitCalls /\ [][NextCalls]_vars

\* every decision given so far for a command is the same decision
OneDecisionPerCommand == \A p, q \in seen : p[1] = q[1] => p[2] = q[2]

C23_ApprovedCommandsParse ==
    (Returned /\ SecureMode /\ decision = Nil)
        => /\ parseCommand(command).err = Nil
           /\ parseCommand(command).executable = FirstToken(TrimSpace(command))
           /\ \E k \in 1..Len(config.AllowedExecutables) :
                  matchesExecutable(env, parseCommand(command).executable,
                                    config.AllowedExecutables[k])

\* C23 witness: an approved command with whitespace around its tokens.
C23_Witness ==
    /\ Returned /\ SecureMode /\ decision = Nil
    /\ command = <<" ", "l", " ", " ", "r", "\t">>
    /\ parseCommand(command).executable = sL
    /\ parseCommand(command).args = <<sR>>

\* the three ways parseCommand rejects a command
ParseRejections ==
    { "empty command", "executable contains shell metacharacters: %s",
      "argument contains dangerous shell constructs: %s" }

\* C24: with direct execution, a command that parseCommand rejects (empty, a
\* metacharacter in the executable, a dangerous construct in an argument)
\* makes execute fail with an error that contains "command parsing failed"
\* before any child is started, and the handler reports it without the
\* "Security violation" prefix of a denial.
C24_ParseFailureIsExecutionError ==
    (ExecuteCalled /\ ~config.UseShellExecution /\ parseCommand(command).err.err)
        => /\ pc = "done" /\ child = NoChild
           /\ result.IsError
           /\ result.text = "command parsing failed: %w"
           /\ result.err.arg = parseCommand(command).err
           /\ result.err.arg.msg \in ParseRejections
           /\ result.text # "Security violation: %s"

\* C24 witness: security is off, execution is direct, and an argument holds a
\* command substitution.
C24_Witness ==
    /\ pc = "done" /\ ExecuteCalled /\ ~config.UseShellExecution
    /\ command = <<"l", " ", "$", "(", "r", ")">>
    /\ RejectedByExecutor
    /\ result.err.arg.msg = "argument contains dangerous shell constructs: %s"

(***************************************************************************)
(* parseCommand as a function: one call parses one command                 *)
(***************************************************************************)
ParseCommands ==
    Commands \cup {<<"\t">>, <<" ", "\n", " ">>, <<"l", "\t", "r", "\n">>,
                   <<"l", " ", "r", " ", ".", " ", "/">>}

InitParse ==
    /\ config = SecurityConfig(FALSE, FALSE, <<>>, <<>>, <<>>, <<>>)
    /\ env = EnvPathHit
    /\ pc = "start"
    /\ command = <<>>
    /\ decision = NoDecision
    /\ probeExe = <<>>
    /\ probePat = <<>>
    /\ probeRes = FALSE
    /\ parseRes = NoParse
    /\ HandlerIdle

ParseCommandCall ==
    /\ pc = "start"
    /\ \E c \in ParseCommands :
          /\ command' = c
          /\ parseRes' = parseCommand(c)
    /\ pc' = "returned"
    /\ UNCHANGED <<config, env, decision, probeExe, probePat, probeRes,
                   handlerVars, callVars>>

NextParse == ParseCommandCall

SpecParse == InitParse /\ [][NextParse]_vars

\* the positions where a whitespace-delimited token of c starts, and where the
\* token that starts at i ends
TokenStarts(c) ==
    {i \in 1..Len(c) : c[i] \notin Whitespace /\ (i = 1 \/ c[i - 1] \in Whitespace)}

TokenEnd(c, i) ==
    CHOOSE j \in i..Len(c) :
        /\ \A k \in i..j : c[k] \notin Whitespace
        /\ j = Len(c) \/ c[j + 1] \in Whitespace

\* the k-th token of c, from the left
TokenAt(c, k) ==
    LET i == CHOOSE n \in TokenStarts(c) :
                 Cardinality({m \in TokenStarts(c) : m < n}) = k - 1
    IN  SubSeq(c, i, TokenEnd(c, i))

OnlyWhitespace(c) == \A i \in 1..Len(c) : c[i] \in Whitespace

\* C25: on success parseCommand returns the first whitespace-delimited token
\* as the executable and the other tokens, in order, as the arguments;
\* leading, trailing and repeated whitespace is ignored, no token returned is
\* empty or holds whitespace, and an empty or whitespace-only command gives
\* the error "empty command".
C25_ParseCommandTokens ==
    Returned =>
        /\ parseRes.err = Nil =>
              LET toks == <<parseRes.executable>> \o parseRes.args IN
              /\ Len(toks) = Cardinality(TokenStarts(command))
              /\ \A k \in 1..Len(toks) :
                    /\ toks[k] = TokenAt(command, k)
                    /\ toks[k] # <<>>
                    /\ \A i \in 1..Len(toks[k]) : toks[k][i] \notin Whitespace
        /\ OnlyWhitespace(command) => parseRes.err = Errorf("empty command", <<>>)

\* C25 witness: a command with whitespace before, between and after two tokens.
C25_Witness ==
    /\ Returned
    /\ command = <<" ", "l", " ", " ", "r", "\t">>
    /\ parseRes = [err |-> Nil, executable |-> sL, args |-> <<sR>>]

\* the configured directory could not be made; the configured user did not
\* resolve to numeric ids
MkdirFailed ==
    config.WorkingDirectory # <<>> /\ config.WorkingDirectory \notin env.dirs

LookupFailed ==
    /\ config.RunAsUser # <<>>
    /\ ~\E u \in env.users :
          /\ u.name = config.RunAsUser
          /\ \A id \in {u.Uid, u.Gid} :
                id # <<>> /\ \A i \in 1..Len(id) : \E d \in 1..10 : Digits[d] = id[i]

\* C26: every result execute returns carries security_info that depends on
\* the configuration only: timeout_applied is true whether or not the
\* timeout fired, security_enabled is config.enabled, working_dir and
\* run_as_user are the configured values, also when the directory could not
\* be made or the user not resolved and the child ran without them.
C26_SecurityInfoFromConfig ==
    ResultReturned =>
        /\ result.security_info.set
        /\ result.security_info.TimeoutApplied
        /\ result.security_info.SecurityEnabled = config.Enabled
        /\ result.security_info.WorkingDir = config.WorkingDirectory
        /\ result.security_info.RunAsUser = config.RunAsUser

\* C26 witness: the timeout did not fire and the user did not resolve to
\* numeric ids; the child ran in the directory under the engine's identity,
\* and the result names the directory and the user.
C26_Witness ==
    /\ ResultReturned /\ ctx = "live" /\ LookupFailed /\ ~MkdirFailed
    /\ child.state = "exited"
    /\ child.dir = sWork /\ ~child.credential.set
    /\ result.security_info.TimeoutApplied
    /\ result.security_info.WorkingDir = sWork
    /\ result.security_info.RunAsUser = sUser

\* the child would be started if the configuration were cfg
WouldStart(cfg) ==
    LET built == buildCommand(cfg, env, command) IN
    /\ ~built.err.err
    /\ canStart(env, configureCommand(cfg, env, built.cmd))

ChildStarted == child.state # "none"

\* C27: a failure to make the configured working directory or to resolve
\* runAsUser to numeric ids never aborts the call: the child is started as it
\* would be without the setting, and runs in the engine's own directory or
\* under the engine's own identity.
C27_SetupFailureGoesOn ==
    ExecuteCalled =>
        /\ MkdirFailed =>
              /\ WouldStart([config EXCEPT !.WorkingDirectory = <<>>])
                    => (ChildStarted \/ ctx = "done")
              /\ ChildStarted => child.dir = <<>>
        /\ LookupFailed =>
              /\ WouldStart([config EXCEPT !.RunAsUser = <<>>])
                    => (ChildStarted \/ ctx = "done")
              /\ ChildStarted => child.credential = NoCredential

\* C27 witness: neither the directory nor the user could be had, and the
\* child ran to its end and its result was returned.
C27_Witness ==
    /\ ResultReturned /\ MkdirFailed /\ LookupFailed
    /\ child.state = "exited" /\ child.code = 0
    /\ child.dir = <<>> /\ child.credential = NoCredential
    /\ result.status = "success"

\* the allowlist entry the loop of validateExecutableCommand stopped at
MatchedEntry ==
    LET ae == config.AllowedExecutables
        k  == CHOOSE k \in 1..Len(ae) :
                 /\ matchesExecutable(env, FirstToken(command), ae[k])
                 /\ \A j \in 1..(k - 1) : ~matchesExecutable(env, FirstToken(command), ae[j])
    IN  ae[k]

\* a path as the file it names, seen from the directory dir
FileFrom(dir, path) == IF IsAbs(path) THEN Clean(path) ELSE Join(dir, path)

\* the file the child was started from
LaunchedFile ==
    FileFrom(IF child.dir # <<>> THEN child.dir ELSE env.cwd, child.path)

\* the candidate was accepted by the absolute-entry branch, or by the
\* base-name branch with its lookup
AcceptedAsAbsolute ==
    /\ FirstToken(command) # MatchedEntry
    /\ IsAbs(MatchedEntry)

AcceptedAsLookedUp ==
    /\ FirstToken(command) # MatchedEntry
    /\ ~IsAbs(MatchedEntry)

\* C28: in secure mode the file the executor launches for an approved
\* command is the one the validator's match resolved: the absolute allowlist
\* entry when the candidate was accepted by resolving it to that entry, the
\* file the lookup found when it was accepted as a looked-up name.
C28_LaunchedIsValidated ==
    (SecureMode /\ ExecuteCalled /\ ChildStarted)
        => /\ AcceptedAsAbsolute => LaunchedFile = MatchedEntry
           /\ AcceptedAsLookedUp
                 => LaunchedFile = FileFrom(env.cwd, LookPath(env, FirstToken(command)).path)

\* what holds of the base-name branch when no working directory is configured
LookedUpIsLaunched ==
    (SecureMode /\ ExecuteCalled /\ ChildStarted /\ AcceptedAsLookedUp
        /\ config.WorkingDirectory = <<>>)
        => LaunchedFile = FileFrom(env.cwd, LookPath(env, FirstToken(command)).path)

\* C29: every string with a dangerous shell construct has a shell
\* metacharacter, so the dangerous-construct check of
\* validateExecutableCommand is never the check that rejects a command.
C29_DangerousImpliesMetachar ==
    Returned =>
        /\ containsDangerousShellConstructs(TrimSpace(command))
              => containsShellMetacharacters(TrimSpace(command))
        /\ SecureMode =>
              decision.msg #
                 "command contains dangerous shell constructs (not allowed in secure mode): %s"

\* C29 witness: a command with the construct >> is refused in secure mode, as
\* one with metacharacters.
C29_Witness ==
    /\ Returned /\ SecureMode
    /\ command = <<"l", " ", ">", ">">>
    /\ containsDangerousShellConstructs(command)
    /\ decision.err
    /\ decision.msg = "command contains shell metacharacters (not allowed in secure mode): %s"

\* the blockedPatterns entries that are regular expressions
ValidPatterns == SelectSeq(config.BlockedPatterns, compileOK)

HasInvalidPattern == Len(ValidPatterns) < Len(config.BlockedPatterns)

LegacyDecisions ==
    { "", "command matches blocked pattern: %s", "command contains blocked keyword: %s",
      "command not in allowed list" }

\* C30: in legacy validation a blockedPatterns entry that is no valid regular
\* expression is skipped silently: it never denies a command and gives no
\* error, and the other patterns, the keywords and the allowlist are
\* evaluated as if the entry were not there.
C30_InvalidPatternSkipped ==
    (Returned /\ LegacyMode /\ HasInvalidPattern)
        => /\ decision =
                 validateLegacyCommand([config EXCEPT !.BlockedPatterns = ValidPatterns],
                                       command)
           /\ decision.msg \in LegacyDecisions
           /\ decision.msg = "command matches blocked pattern: %s"
                 => /\ compileOK(decision.arg)
                    /\ MatchString(decision.arg, command).matched

\* C30 witness: the first pattern does not compile, the second one matches
\* the command and denies it.
C30_Witness ==
    /\ Returned /\ LegacyMode
    /\ config.BlockedPatterns = << <<"(">>, <<"^", "l">> >>
    /\ command = <<"l", " ", "r">>
    /\ decision = Errorf("command matches blocked pattern: %s", <<"^", "l">>)

====
